---- MODULE Spec2Model ----
(***************************************************************************)
(* TeddyPlayer: the encoding coordinator and cache store                   *)
(* (services/transcoding.py), the reader state machine and the scan        *)
(* orchestrator (main.py), and the SD-mirror upload runs (main.py,         *)
(* services/devices.py).                                                   *)
(*                                                                         *)
(* The server is one asyncio event loop: the code between two awaits that  *)
(* really suspend runs atomically, so every action below is one such       *)
(* segment, from the point where a coroutine is resumed to the next await  *)
(* at which it suspends.                                                   *)
(***************************************************************************)
EXTENDS Integers, Sequences, FiniteSets, TLC

(***************************************************************************)
(* Bounds of the model                                                     *)
(***************************************************************************)
MaxCacheMb == 11      \* settings.audio_cache_max_mb, a configured value
TrackMb == 1          \* size of one encoded track file (one minute of CBR audio)
MaxQueue == 2         \* entries a device queue holds; a full queue refuses a track

(***************************************************************************)
(* Program constants                                                       *)
(***************************************************************************)
StallSeconds == 600   \* "elapsed > 600": the age at which an encoding counts as stuck
TrackTimeout == 120   \* "timeout=120,  # 2 min per track max"
CastFailLimit == 3    \* "if _chromecast_fail_count >= 3": the failures that turn Cast off
EstMbPerMin == 10     \* "~10 MB per 10 minutes": int(duration / 60 * 10 * 1024 * 1024)

(***************************************************************************)
(* Albums: a fingerprint is the cache key of a source URL                  *)
(* (get_tonie_cache_key); Album(fp) is the track list of the tag, one      *)
(* duration (in minutes) per track.  The tags carry no picture: cover_url  *)
(* is empty and fetch_cover_image returns None at once.  The second track  *)
(* of "fa" is empty (duration 0): both encoder loops skip such a track.    *)
(***************************************************************************)
FP == {"fa", "fb"}
Album(fp) == IF fp = "fa" THEN <<1, 0, 1>> ELSE <<1>>
NTracks(fp) == Len(Album(fp))
MaxTracks == NTracks("fa")
TrackIdx == 0 .. (MaxTracks - 1)
Duration(fp, i) == Album(fp)[i + 1]

Jobs == {"j1", "j2"}                \* scan jobs (encode_and_play / encode_tracks_for_browser)
QueueDevices == {"sonos"}            \* the playback device of a network scan: a Sonos
                                     \* speaker, which supports progressive queueing

VARIABLES
    dirs,        \* fingerprint directories that exist under CACHE_DIR
    files,       \* files[fp]: indices i whose track file NN.mp3 (NN = i+1) exists, non-empty
    meta,        \* meta[fp]: [exists, tracks]  (metadata.json and its track indices)
    lru,         \* directories holding mp3 files, oldest minimum atime first
    lockq,       \* _encoding_locks: per key the holder (head) and the FIFO waiters
    encStatus,   \* _encoding_status[cache_key]["status"], "none" when absent
    job,         \* the scan jobs: main line (pc) and background remaining task (rpc)
    queue,       \* the playback queue of each queue-capable device
    rs,          \* reader_states[reader_ip] of the one reader
    devs,        \* the playback devices: transport state and position
    hd,          \* the request handlers in flight and the point where each is suspended
    resp,        \* the response returned last by POST /tonie
    pending_uploads,  \* _pending_uploads: the devices with a queued upload intent
    upload_status,    \* _upload_status[ip:dest_path]: status, and whether source_path is kept
    upload_cancel,    \* _upload_cancel: the devices whose cancel flag is set
    sd,          \* the files on the SD card of each ESPuino: "absent", "partial", "ok"
    rfid,        \* whether the tag-to-folder mapping of the ESPuino is set
    run,         \* the upload tasks and the point where each is suspended
    connected_readers,  \* connected_readers[ip]: known, and seconds since last_seen
    reader_states,      \* reader_states[ip] of every reader: current tag set, device type
    listing,     \* get_streams under way: the readers still to visit, the streams so far
    streams,     \* the readers listed by the GET /streams answered last
    target,      \* the type of the playback device the adapter calls go to
    player,      \* that device: transport state, medium, position, queued tracks
    airplay_connections,     \* whether _airplay_connections holds the device
    chromecast_connections,  \* whether _chromecast_connections holds the device
    chromecast_disabled,     \* _chromecast_disabled
    chromecast_fail_count,   \* _chromecast_fail_count
    cast_call,   \* the operations waiting for a Cast discovery
    cast_failures,  \* history: the Cast connection attempts that failed so far
    last,        \* history: the adapter operation that returned last, and its value
    lookup,      \* find_tonie_by_uid: the uid scanned, the tag index, the catalog, the result
    reader_devices,  \* settings.reader_devices: the persisted device of each reader
    scan_device, \* history: the scan request resolved last, and the device it resolved to
    now,         \* time.time(), in seconds
    status_info, \* _encoding_status[cache_key] of one album: status, started_at
    encoder,     \* encode_tonie_tracks of that album: where it is suspended, its start_time
    polled,      \* the status the last get_encoding_status returned
    track_io, \* encode_track_to_mp3 of one album: the temp file, the track files, the run
    xfer  \* upload_to_espuino: one call, its clock, its retry loop and its watchdog

encVars == <<dirs, files, meta, lru, lockq, encStatus, job, queue>>

readerVars == <<rs, devs, hd, resp>>

uploadVars == <<pending_uploads, upload_status, upload_cancel, sd, rfid, run>>

streamVars == <<connected_readers, reader_states, listing, streams>>

adapterVars == <<target, player, airplay_connections, chromecast_connections,
                 chromecast_disabled, chromecast_fail_count, cast_call, cast_failures, last>>

overrideVars == <<reader_devices, scan_device>>

statusVars == <<now, status_info, encoder, polled>>

ioVars == <<track_io>>

xferVars == <<xfer>>

vars == <<dirs, files, meta, lru, lockq, encStatus, job, queue, rs, devs, hd, resp,
          pending_uploads, upload_status, upload_cancel, sd, rfid, run,
          connected_readers, reader_states, listing, streams,
          target, player, airplay_connections, chromecast_connections,
          chromecast_disabled, chromecast_fail_count, cast_call, cast_failures, last,
          lookup, reader_devices, scan_device, now, status_info, encoder, polled,
          track_io,
          xfer>>

\* the variables each part of the server leaves alone
nonEncVars == <<readerVars, uploadVars, streamVars, adapterVars, lookup, overrideVars,
    statusVars,
    ioVars,
    xferVars>>
nonReaderVars == <<encVars, uploadVars, streamVars, adapterVars, lookup, overrideVars,
    statusVars,
    ioVars,
    xferVars>>
nonUploadVars == <<encVars, readerVars, streamVars, adapterVars, lookup, overrideVars,
    statusVars,
    ioVars,
    xferVars>>
nonStreamVars == <<encVars, readerVars, uploadVars, adapterVars, lookup, overrideVars,
    statusVars,
    ioVars,
    xferVars>>
nonAdapterVars == <<encVars, readerVars, uploadVars, streamVars, lookup, overrideVars,
    statusVars,
    ioVars,
    xferVars>>
nonLookupVars == <<encVars, readerVars, uploadVars, streamVars, adapterVars, overrideVars,
    statusVars,
    ioVars,
    xferVars>>
nonStatusVars == <<encVars, readerVars, uploadVars, streamVars, adapterVars, lookup,
    overrideVars,
    ioVars,
    xferVars>>
nonXferVars == <<encVars, readerVars, uploadVars, streamVars, adapterVars, lookup,
    overrideVars,
    ioVars,
    statusVars>>
nonIoVars == <<encVars, readerVars, uploadVars, streamVars, adapterVars, lookup,
    overrideVars,
    statusVars,
    xferVars>>
nonOverrideVars == <<encVars, readerVars, uploadVars, streamVars, adapterVars, lookup,
    statusVars,
    ioVars,
    xferVars>>

NoMeta == [exists |-> FALSE, tracks |-> <<>>]
IdleJob == [kind |-> "idle", fp |-> "none", dev |-> "none", pc |-> "off", rpc |-> "off",
            i |-> 0, infos |-> <<>>]

LockKeys == {<<fp, sfx>> : fp \in FP, sfx \in {"", "_remaining"}}

\* _get_encoding_lock(cache_key): one lock per key string
FirstKey(fp) == <<fp, "">>
RemainingKey(fp) == <<fp, "_remaining">>

InitEnc ==
    /\ dirs = {}
    /\ files = [fp \in FP |-> {}]
    /\ meta = [fp \in FP |-> NoMeta]
    /\ lru = <<>>
    /\ lockq = [k \in LockKeys |-> <<>>]
    /\ encStatus = [fp \in FP |-> "none"]
    /\ job = [j \in Jobs |-> IdleJob]
    /\ queue = [d \in QueueDevices |-> <<>>]

(***************************************************************************)
(* Cache store                                                             *)
(***************************************************************************)
\* item_size = sum(f.stat().st_size for f in mp3s)
DirSize(fs, fp) == Cardinality(fs[fp]) * TrackMb

RECURSIVE SumSizes(_, _)
SumSizes(fs, S) ==
    IF S = {} THEN 0
    ELSE LET fp == CHOOSE x \in S : TRUE
         IN DirSize(fs, fp) + SumSizes(fs, S \ {fp})

get_cache_size(fs) == SumSizes(fs, FP)

\* a cleanup that removes the oldest directory only
cleanup_oldest_only(fs, items, current_size, target_bytes) ==
    IF current_size > target_bytes /\ items # <<>> THEN {Head(items)} ELSE {}

\* the while loop of cleanup_cache: the directories removed, oldest first
RECURSIVE cleanup_cache(_, _, _, _)
cleanup_cache(fs, items, current_size, target_bytes) ==
    IF current_size > target_bytes /\ items # <<>>
    THEN {Head(items)} \cup
         cleanup_cache(fs, Tail(items), current_size - DirSize(fs, Head(items)), target_bytes)
    ELSE {}

\* the directories ensure_cache_space(needed_bytes) removes
ensure_cache_space(fs, order, needed) ==
    IF get_cache_size(fs) + needed > MaxCacheMb
    THEN cleanup_cache(fs, order, get_cache_size(fs), MaxCacheMb - needed)
    ELSE {}

RECURSIVE SumDur(_)
SumDur(s) == IF s = <<>> THEN 0 ELSE Head(s) + SumDur(Tail(s))

EstimateFirst(fp) == Duration(fp, 0) * EstMbPerMin
EstimateAll(fp) == SumDur(Album(fp)) * EstMbPerMin

RECURSIVE Without(_, _)
Without(s, E) ==
    IF s = <<>> THEN <<>>
    ELSE IF Head(s) \in E THEN Without(Tail(s), E)
         ELSE <<Head(s)>> \o Without(Tail(s), E)

InSeq(s, x) == \E k \in 1 .. Len(s) : s[k] = x

(***************************************************************************)
(* Helpers of the encoding tasks                                           *)
(***************************************************************************)
\* shutil.rmtree of every directory in E
RmFiles(fs, E) == [f \in FP |-> IF f \in E THEN {} ELSE fs[f]]
RmMeta(m, E) == [f \in FP |-> IF f \in E THEN NoMeta ELSE m[f]]

\* shutil.move(temp_path, output_path) after output_path.parent.mkdir
WriteTrack(fs, fp, i) == [fs EXCEPT ![fp] = @ \cup {i}]
Touch(order, fs, fp) == IF fs[fp] = {} THEN Append(order, fp) ELSE order

Release(lq, k) == [lq EXCEPT ![k] = Tail(@)]
Acquire(lq, k, j) == [lq EXCEPT ![k] = Append(@, j)]

\* a job whose main line and background task have both ended is forgotten
Norm(r) ==
    IF r.pc = "done" /\ r.rpc \in {"off", "done"} THEN IdleJob
    ELSE IF r.rpc \in {"off", "done"} /\ r.kind = "net" THEN [r EXCEPT !.i = 0, !.infos = <<>>]
    ELSE r

(***************************************************************************)
(* encode_first_track                                                      *)
(***************************************************************************)
\* the body under `async with lock`, up to the await of the transcoder
EfLocked(j, b, lq) ==
    LET fp == b.fp IN
    IF 0 \in files[fp]
    THEN /\ encStatus' = [encStatus EXCEPT ![fp] = "cached"]
         /\ lockq' = Release(lq, FirstKey(fp))
         /\ job' = [job EXCEPT ![j] = [b EXCEPT !.pc = "play", !.rpc = "cr_start"]]
         /\ UNCHANGED <<dirs, files, meta, lru, queue>>
    ELSE LET E == ensure_cache_space(files, lru, EstimateFirst(fp)) IN
         /\ dirs' = (dirs \cup {fp}) \ E
         /\ files' = RmFiles(files, E)
         /\ meta' = RmMeta(meta, E)
         /\ lru' = Without(lru, E)
         /\ encStatus' = [encStatus EXCEPT ![fp] = "encoding"]
         /\ lockq' = lq
         /\ job' = [job EXCEPT ![j] = [b EXCEPT !.pc = "ef_encoding"]]
         /\ UNCHANGED queue

\* from the start of encode_first_track to its first suspension
EfBegin(j, b) ==
    LET fp == b.fp IN
    IF 0 \in files[fp]
    THEN /\ encStatus' = [encStatus EXCEPT ![fp] = "cached"]
         /\ job' = [job EXCEPT ![j] = [b EXCEPT !.pc = "play", !.rpc = "cr_start"]]
         /\ UNCHANGED <<dirs, files, meta, lru, lockq, queue>>
    ELSE IF lockq[FirstKey(fp)] = <<>>
    THEN EfLocked(j, b, Acquire(lockq, FirstKey(fp), j))
    ELSE /\ lockq' = Acquire(lockq, FirstKey(fp), j)
         /\ job' = [job EXCEPT ![j] = [b EXCEPT !.pc = "ef_lockwait"]]
         /\ UNCHANGED <<dirs, files, meta, lru, encStatus, queue>>

\* play_tonie_for_reader, network device: is_cached decides between
\* `await encode_and_play()` and asyncio.create_task(encode_and_play())
StartNet(j, fp, dev) ==
    /\ job[j].kind = "idle"
    /\ LET b == [IdleJob EXCEPT !.kind = "net", !.fp = fp, !.dev = dev] IN
       IF meta[fp].exists
       THEN EfBegin(j, b)
       ELSE /\ encStatus' = [encStatus EXCEPT ![fp] = "encoding"]
            /\ job' = [job EXCEPT ![j] = [b EXCEPT !.pc = "ef_start"]]
            /\ UNCHANGED <<dirs, files, meta, lru, lockq, queue>>
    /\ UNCHANGED nonEncVars

\* the created task encode_and_play starts running
EfStart(j) ==
    /\ job[j].pc = "ef_start"
    /\ EfBegin(j, job[j])
    /\ UNCHANGED nonEncVars

\* the lock is handed to the waiting encode_first_track
EfAcquire(j) ==
    /\ job[j].pc = "ef_lockwait"
    /\ Head(lockq[FirstKey(job[j].fp)]) = j
    /\ EfLocked(j, job[j], lockq)
    /\ UNCHANGED nonEncVars

\* the transcoder of the first track ends
EfEncodeDone(j, ok) ==
    /\ job[j].pc = "ef_encoding"
    /\ LET fp == job[j].fp IN
       IF ok
       THEN /\ dirs' = dirs \cup {fp}
            /\ files' = WriteTrack(files, fp, 0)
            /\ lru' = Touch(lru, files, fp)
            /\ encStatus' = [encStatus EXCEPT ![fp] = "encoding"]
            /\ lockq' = Release(lockq, FirstKey(fp))
            /\ job' = [job EXCEPT ![j] = [@ EXCEPT !.pc = "play", !.rpc = "cr_start"]]
            /\ UNCHANGED <<meta, queue>>
       ELSE /\ encStatus' = [encStatus EXCEPT ![fp] = "error"]
            /\ lockq' = Release(lockq, FirstKey(fp))
            /\ job' = [job EXCEPT ![j] = Norm([@ EXCEPT !.pc = "done"])]
            /\ UNCHANGED <<dirs, files, meta, lru, queue>>
    /\ UNCHANGED nonEncVars

\* encode_and_play: play_playlist_on_sonos([first_track_url]) clears the queue and
\* adds the first track
Play(j, ok) ==
    /\ job[j].pc = "play"
    /\ queue' = IF ok
                THEN [queue EXCEPT ![job[j].dev] = <<<<job[j].fp, 0>>>>]
                ELSE queue
    /\ job' = [job EXCEPT ![j] = Norm([@ EXCEPT !.pc = "done"])]
    /\ UNCHANGED <<dirs, files, meta, lru, lockq, encStatus>>
    /\ UNCHANGED nonEncVars

(***************************************************************************)
(* continue_encoding_remaining_tracks                                      *)
(***************************************************************************)
\* the for loop from index i on, up to the first track that needs the transcoder:
\* cached tracks are appended to track_infos and skipped (cover_path is None)
RECURSIVE CrScan(_, _, _, _)
CrScan(fp, i, infos, fs) ==
    IF i >= NTracks(fp) THEN [i |-> i, infos |-> infos]
    ELSE IF Duration(fp, i) <= 0 THEN CrScan(fp, i + 1, infos, fs)
    ELSE IF i \in fs[fp] THEN CrScan(fp, i + 1, Append(infos, i), fs)
    ELSE [i |-> i, infos |-> infos]

\* the loop of the locked body from index i0 on, up to the next suspension;
\* fs and ds are the files and directories it finds
CrLoop(j, b, i0, infos0, fs, ds, lq) ==
    LET fp == b.fp
        r == CrScan(fp, i0, infos0, fs)
    IN
    IF r.i < NTracks(fp)
    THEN /\ encStatus' = [encStatus EXCEPT ![fp] = "encoding"]
         /\ job' = [job EXCEPT ![j] = [b EXCEPT !.rpc = "cr_encoding", !.i = r.i,
                                                !.infos = r.infos]]
         /\ lockq' = lq
         /\ meta' = meta
    ELSE IF fp \in ds
    THEN /\ meta' = [meta EXCEPT ![fp] = [exists |-> TRUE, tracks |-> r.infos]]
         /\ encStatus' = [encStatus EXCEPT ![fp] = "ready"]
         /\ job' = [job EXCEPT ![j] = [b EXCEPT !.rpc = "cr_sleep", !.i = 0, !.infos = <<>>]]
         /\ lockq' = lq
    ELSE \* open(metadata_path, "w") raises: the directory is gone
         /\ meta' = meta
         /\ encStatus' = encStatus
         /\ job' = [job EXCEPT ![j] = Norm([b EXCEPT !.rpc = "done"])]
         /\ lockq' = Release(lq, RemainingKey(fp))

\* the task encode_remaining starts running
CrStart(j) ==
    /\ job[j].rpc = "cr_start"
    /\ LET fp == job[j].fp IN
       IF NTracks(fp) <= 1
       THEN IF fp \in dirs
            THEN /\ meta' = [meta EXCEPT ![fp] = [exists |-> TRUE, tracks |-> <<0>>]]
                 /\ encStatus' = [encStatus EXCEPT ![fp] = "ready"]
                 /\ job' = [job EXCEPT ![j] = [@ EXCEPT !.rpc = "cr_sleep1"]]
                 /\ UNCHANGED <<dirs, files, lru, lockq, queue>>
            ELSE /\ job' = [job EXCEPT ![j] = Norm([@ EXCEPT !.rpc = "done"])]
                 /\ UNCHANGED <<dirs, files, meta, lru, lockq, encStatus, queue>>
       ELSE IF lockq[RemainingKey(fp)] = <<>>
       THEN /\ CrLoop(j, job[j], 1, <<0>>, files, dirs, Acquire(lockq, RemainingKey(fp), j))
            /\ UNCHANGED <<dirs, files, lru, queue>>
       ELSE /\ lockq' = Acquire(lockq, RemainingKey(fp), j)
            /\ job' = [job EXCEPT ![j] = [@ EXCEPT !.rpc = "cr_lockwait"]]
            /\ UNCHANGED <<dirs, files, meta, lru, encStatus, queue>>
    /\ UNCHANGED nonEncVars

\* the "_remaining" lock is handed to the waiting task
CrAcquire(j) ==
    /\ job[j].rpc = "cr_lockwait"
    /\ Head(lockq[RemainingKey(job[j].fp)]) = j
    /\ CrLoop(j, job[j], 1, <<0>>, files, dirs, lockq)
    /\ UNCHANGED <<dirs, files, lru, queue>>
    /\ UNCHANGED nonEncVars

\* a remaining-tracks task that discards the directory when the transcoder fails
CrEncodeDoneDiscard(j, ok) ==
    /\ job[j].rpc = "cr_encoding"
    /\ LET fp == job[j].fp
           i == job[j].i
       IN
       IF ~ok
       THEN /\ encStatus' = [encStatus EXCEPT ![fp] = "error"]
            /\ lockq' = Release(lockq, RemainingKey(fp))
            /\ job' = [job EXCEPT ![j] = Norm([@ EXCEPT !.rpc = "done"])]
            /\ dirs' = dirs \ {fp}
            /\ files' = RmFiles(files, {fp})
            /\ meta' = RmMeta(meta, {fp})
            /\ lru' = Without(lru, {fp})
            /\ UNCHANGED queue
       ELSE /\ dirs' = dirs \cup {fp}
            /\ files' = WriteTrack(files, fp, i)
            /\ lru' = Touch(lru, files, fp)
            /\ job' = [job EXCEPT ![j] = [@ EXCEPT !.rpc = "cr_queue", !.infos = Append(@, i)]]
            /\ UNCHANGED <<meta, lockq, encStatus, queue>>
    /\ UNCHANGED nonEncVars

\* the transcoder of track job[j].i ends
CrEncodeDone(j, ok) ==
    /\ job[j].rpc = "cr_encoding"
    /\ LET fp == job[j].fp
           i == job[j].i
       IN
       IF ~ok
       THEN /\ encStatus' = [encStatus EXCEPT ![fp] = "error"]
            /\ lockq' = Release(lockq, RemainingKey(fp))
            /\ job' = [job EXCEPT ![j] = Norm([@ EXCEPT !.rpc = "done"])]
            /\ UNCHANGED <<dirs, files, meta, lru, queue>>
       ELSE /\ dirs' = dirs \cup {fp}
            /\ files' = WriteTrack(files, fp, i)
            /\ lru' = Touch(lru, files, fp)
            /\ job' = [job EXCEPT ![j] = [@ EXCEPT !.rpc = "cr_queue", !.infos = Append(@, i)]]
            /\ UNCHANGED <<meta, lockq, encStatus, queue>>
    /\ UNCHANGED nonEncVars

\* queue_track_on_device returns
CrQueueDone(j, ok) ==
    /\ job[j].rpc = "cr_queue"
    /\ ok => Len(queue[job[j].dev]) < MaxQueue
    /\ queue' = IF ok
                THEN [queue EXCEPT ![job[j].dev] = Append(@, <<job[j].fp, job[j].i>>)]
                ELSE queue
    /\ CrLoop(j, job[j], job[j].i + 1, job[j].infos, files, dirs, lockq)
    /\ UNCHANGED <<dirs, files, lru>>
    /\ UNCHANGED nonEncVars

\* asyncio.sleep(1) ends: clear_encoding_status, and the lock is released
CrSleepDone(j) ==
    /\ job[j].rpc \in {"cr_sleep", "cr_sleep1"}
    /\ encStatus' = [encStatus EXCEPT ![job[j].fp] = "none"]
    /\ lockq' = IF job[j].rpc = "cr_sleep"
                THEN Release(lockq, RemainingKey(job[j].fp))
                ELSE lockq
    /\ job' = [job EXCEPT ![j] = Norm([@ EXCEPT !.rpc = "done"])]
    /\ UNCHANGED <<dirs, files, meta, lru, queue>>
    /\ UNCHANGED nonEncVars

(***************************************************************************)
(* encode_tonie_tracks (get_or_encode_tracks)                              *)
(***************************************************************************)
RECURSIVE NextTrack(_, _)
NextTrack(fp, i) ==
    IF i < NTracks(fp) /\ Duration(fp, i) <= 0 THEN NextTrack(fp, i + 1) ELSE i

\* the for loop from index i0 on, up to the next suspension; fs, ds, m are the
\* files, directories and metadata it finds
AllLoop(j, b, i0, infos0, fs, ds, m, lq) ==
    LET fp == b.fp
        i == NextTrack(fp, i0)
    IN
    IF i < NTracks(fp)
    THEN /\ encStatus' = [encStatus EXCEPT ![fp] = "encoding"]
         /\ job' = [job EXCEPT ![j] = [b EXCEPT !.pc = "all_encoding", !.i = i,
                                                !.infos = infos0]]
         /\ lockq' = lq
         /\ meta' = m
    ELSE IF fp \notin ds
    THEN \* open(metadata_path, "w") raises: the directory is gone
         /\ meta' = m
         /\ encStatus' = encStatus
         /\ job' = [job EXCEPT ![j] = Norm([b EXCEPT !.pc = "done"])]
         /\ lockq' = Release(lq, FirstKey(fp))
    ELSE IF \E k \in 1 .. Len(infos0) : infos0[k] \notin fs[fp]
    THEN \* metadata.json is written, then stat() of a missing track file raises
         /\ meta' = [m EXCEPT ![fp] = [exists |-> TRUE, tracks |-> infos0]]
         /\ encStatus' = encStatus
         /\ job' = [job EXCEPT ![j] = Norm([b EXCEPT !.pc = "done"])]
         /\ lockq' = Release(lq, FirstKey(fp))
    ELSE /\ meta' = [m EXCEPT ![fp] = [exists |-> TRUE, tracks |-> infos0]]
         /\ encStatus' = [encStatus EXCEPT ![fp] = "ready"]
         /\ job' = [job EXCEPT ![j] = [b EXCEPT !.pc = "all_sleep", !.i = 0, !.infos = <<>>]]
         /\ lockq' = lq

\* the body under `async with lock`, up to the first suspension
AllLocked(j, b, lq) ==
    LET fp == b.fp IN
    IF meta[fp].exists
    THEN /\ encStatus' = [encStatus EXCEPT ![fp] = "cached"]
         /\ lockq' = Release(lq, FirstKey(fp))
         /\ job' = [job EXCEPT ![j] = Norm([b EXCEPT !.pc = "done"])]
         /\ UNCHANGED <<dirs, files, meta, lru, queue>>
    ELSE LET E == ensure_cache_space(files, lru, EstimateAll(fp)) IN
         /\ dirs' = (dirs \cup {fp}) \ E
         /\ files' = RmFiles(files, E)
         /\ lru' = Without(lru, E)
         /\ AllLoop(j, b, 0, <<>>, files', dirs', RmMeta(meta, E), lq)
         /\ UNCHANGED queue

\* play_tonie_for_reader, browser device: the status is set and the task
\* encode_tracks_for_browser is created
StartBrowser(j, fp) ==
    /\ job[j].kind = "idle"
    /\ encStatus' = IF meta[fp].exists THEN encStatus
                    ELSE [encStatus EXCEPT ![fp] = "encoding"]
    /\ job' = [job EXCEPT ![j] = [IdleJob EXCEPT !.kind = "browser", !.fp = fp,
                                                 !.dev = "browser", !.pc = "all_start"]]
    /\ UNCHANGED <<dirs, files, meta, lru, lockq, queue>>
    /\ UNCHANGED nonEncVars

\* the task encode_tracks_for_browser starts running
AllStart(j) ==
    /\ job[j].pc = "all_start"
    /\ LET fp == job[j].fp IN
       IF meta[fp].exists
       THEN /\ encStatus' = [encStatus EXCEPT ![fp] = "cached"]
            /\ job' = [job EXCEPT ![j] = Norm([@ EXCEPT !.pc = "done"])]
            /\ UNCHANGED <<dirs, files, meta, lru, lockq, queue>>
       ELSE IF lockq[FirstKey(fp)] = <<>>
       THEN AllLocked(j, job[j], Acquire(lockq, FirstKey(fp), j))
       ELSE /\ lockq' = Acquire(lockq, FirstKey(fp), j)
            /\ job' = [job EXCEPT ![j] = [@ EXCEPT !.pc = "all_lockwait"]]
            /\ UNCHANGED <<dirs, files, meta, lru, encStatus, queue>>
    /\ UNCHANGED nonEncVars

\* the lock is handed to the waiting encode_tonie_tracks
AllAcquire(j) ==
    /\ job[j].pc = "all_lockwait"
    /\ Head(lockq[FirstKey(job[j].fp)]) = j
    /\ AllLocked(j, job[j], lockq)
    /\ UNCHANGED nonEncVars

\* the transcoder of track job[j].i ends
AllEncodeDone(j, ok) ==
    /\ job[j].pc = "all_encoding"
    /\ LET fp == job[j].fp
           i == job[j].i
       IN
       IF ~ok
       THEN /\ encStatus' = [encStatus EXCEPT ![fp] = "error"]
            /\ lockq' = Release(lockq, FirstKey(fp))
            /\ job' = [job EXCEPT ![j] = Norm([@ EXCEPT !.pc = "done"])]
            /\ UNCHANGED <<dirs, files, meta, lru, queue>>
       ELSE /\ dirs' = dirs \cup {fp}
            /\ files' = WriteTrack(files, fp, i)
            /\ lru' = Touch(lru, files, fp)
            /\ AllLoop(j, job[j], i + 1, Append(job[j].infos, i), files', dirs', meta, lockq)
            /\ UNCHANGED queue
    /\ UNCHANGED nonEncVars

\* asyncio.sleep(1) ends: clear_encoding_status, and the lock is released
AllSleepDone(j) ==
    /\ job[j].pc = "all_sleep"
    /\ encStatus' = [encStatus EXCEPT ![job[j].fp] = "none"]
    /\ lockq' = Release(lockq, FirstKey(job[j].fp))
    /\ job' = [job EXCEPT ![j] = Norm([@ EXCEPT !.pc = "done"])]
    /\ UNCHANGED <<dirs, files, meta, lru, queue>>
    /\ UNCHANGED nonEncVars

(***************************************************************************)
(* The encoding coordinator and the cache store                            *)
(***************************************************************************)
NextEnc ==
    \/ \E j \in Jobs, fp \in FP, dev \in QueueDevices : StartNet(j, fp, dev)
    \/ \E j \in Jobs : EfStart(j)
    \/ \E j \in Jobs : EfAcquire(j)
    \/ \E j \in Jobs, ok \in BOOLEAN : EfEncodeDone(j, ok)
    \/ \E j \in Jobs, ok \in BOOLEAN : Play(j, ok)
    \/ \E j \in Jobs : CrStart(j)
    \/ \E j \in Jobs : CrAcquire(j)
    \/ \E j \in Jobs, ok \in BOOLEAN : CrEncodeDone(j, ok)
    \/ \E j \in Jobs, ok \in BOOLEAN : CrQueueDone(j, ok)
    \/ \E j \in Jobs : CrSleepDone(j)
    \/ \E j \in Jobs, fp \in FP : StartBrowser(j, fp)
    \/ \E j \in Jobs : AllStart(j)
    \/ \E j \in Jobs : AllAcquire(j)
    \/ \E j \in Jobs, ok \in BOOLEAN : AllEncodeDone(j, ok)
    \/ \E j \in Jobs : AllSleepDone(j)

\* get_encoding_status: metadata.json first, then the entry of
\* _encoding_status, then the mp3 files of the directory (the ten-minute
\* staleness test of an "encoding" entry is left out: time is not counted here)
get_encoding_status(fp) ==
    IF meta[fp].exists THEN "cached"
    ELSE IF encStatus[fp] # "none" THEN encStatus[fp]
    ELSE IF files[fp] # {} THEN "partial"
    ELSE "unknown"

(***************************************************************************)
(* Reader state machine (main.py).  One physical reader; a scan request    *)
(* carries mode "local" (the reader plays on itself, an ESPuino) or mode   *)
(* "stream" with an AirPlay target.  Positions are whole time units.       *)
(***************************************************************************)
MaxPos == 2           \* positions and elapsed time run from 0 to MaxPos

Tags == {"ua"}                       \* tag uids known to the content server
Unresolved == {"ux"}                 \* uids find_tonie_by_uid answers with None
Uids == Tags \cup Unresolved
Devices == {"espuino", "airplay"}
Modes == {"local", "stream"}
Handlers == {"h1", "h2"}             \* request handlers that can be suspended at once

NoTag == [uid |-> "none", playback_url |-> "none"]
NoResume == [uid |-> "none", position |-> 0, device |-> "none", paused |-> FALSE]
IdleHandler == [kind |-> "idle", pc |-> "off", uid |-> "none", device |-> "none",
                override |-> "none", position |-> 0, resume_first |-> FALSE]
NoResponse == [uid |-> "none", found |-> FALSE, playback_started |-> FALSE,
               playback_url |-> "none"]

\* get_reader_state: the record a reader starts with
InitReader ==
    /\ rs = [current_tag |-> NoTag, started |-> FALSE, elapsed |-> 0, current_offset |-> 0,
             current_device |-> "none", resume |-> NoResume, mode |-> "none",
             target_device |-> "none"]
    /\ devs = [d \in Devices |-> [st |-> "stopped", pos |-> 0]]
    /\ hd = [h \in Handlers |-> IdleHandler]
    /\ resp = NoResponse

\* build_playback_url: always a URL string, never null
build_playback_url(uid) == <<"/transcode.mp3?url=", uid>>

\* handle_tonie: the device override a request resolves to, "none" for None.  A
\* device is named by its type; the reader itself is "espuino".
\* reader_configured_device is what get_reader_device_override returned.
device_override_local_first(mode, target_device, reader_configured_device) ==
    IF mode = "stream" /\ target_device # "none" THEN target_device
    ELSE IF mode = "local" THEN "espuino"
    ELSE reader_configured_device

device_override(mode, target_device, reader_configured_device) ==
    LET is_espuino_reader == \/ reader_configured_device = "none"
                             \/ reader_configured_device = "espuino"
    IN  IF mode = "stream" /\ target_device # "none" THEN target_device
        ELSE IF mode = "local" /\ is_espuino_reader THEN "espuino"
        ELSE IF reader_configured_device # "none" THEN reader_configured_device
        ELSE "none"

\* the one reader of this state machine has no persisted device, and its stream
\* requests name the AirPlay target
DeviceOverride(mode) ==
    device_override(mode, IF mode = "stream" THEN "airplay" ELSE "none", "none")

\* get_resume_position for a device that reports no position:
\* current_offset + (now - current_started_at), or 0.0
get_resume_position(r) ==
    IF r.started
    THEN IF r.current_offset + r.elapsed > MaxPos THEN MaxPos ELSE r.current_offset + r.elapsed
    ELSE 0

\* get_device_for_reader: the reader has no override and no default device is set
get_device_for_reader == "none"

\* device adapters: the state a device is in after the call; play_on_airplay
\* takes no start position
play_on_device(d, ds, start_position) ==
    IF d = "airplay" THEN [st |-> "playing", pos |-> 0]
    ELSE [st |-> "playing", pos |-> start_position]

stop_device(d, ds) == [st |-> "stopped", pos |-> 0]

\* pause_airplay stops and closes the connection; pause_espuino toggles pause/play
pause_device(d, ds) ==
    IF d = "airplay" THEN stop_device(d, ds)
    ELSE IF ds.st = "playing" THEN [ds EXCEPT !.st = "paused"]
    ELSE IF ds.st = "paused" THEN [ds EXCEPT !.st = "playing"]
    ELSE ds

\* resume_airplay needs the cached connection; resume_espuino is pause_espuino
resume_device(d, ds) ==
    IF d = "airplay" THEN ds ELSE pause_device(d, ds)

resume_result(d, ds) ==
    IF d = "airplay" THEN ds.st = "playing" ELSE TRUE

Respond(uid, started, url) ==
    [uid |-> uid, found |-> uid \in Tags, playback_started |-> started, playback_url |-> url]

\* stop_reader_playback, the fields cleared by a full stop
Cleared(r) ==
    [r EXCEPT !.current_tag = NoTag, !.started = FALSE, !.elapsed = 0,
              !.current_offset = 0, !.current_device = "none"]

\* Requests arrive one at a time, except that the reader may send a scan while
\* earlier scans are still in progress.
FreeHandlers == {h \in Handlers : hd[h].kind = "idle"}
Quiet == FreeHandlers = Handlers
ScanSlot == FreeHandlers # {} /\ \A h \in Handlers : hd[h].kind \in {"idle", "scan"}
\* the handler a new request runs in
NewHandler == CHOOSE h \in FreeHandlers : TRUE

\* POST /tonie with a uid: handle_tonie and play_tonie_for_reader up to the first
\* suspension
Scan(uid, mode) ==
    LET r0 == [rs EXCEPT !.mode = mode,
                         !.target_device = IF mode = "stream" THEN DeviceOverride(mode)
                                           ELSE "none"]
        current == r0.current_tag
        resume == r0.resume
        me == [IdleHandler EXCEPT !.kind = "scan", !.uid = uid,
                                  !.override = DeviceOverride(mode)]
    IN
    /\ devs' = devs
    /\ IF current.uid = uid /\ resume.uid = uid /\ resume.paused
       THEN \* tag returned: await resume_device(device)
            /\ ScanSlot
            /\ rs' = r0
            /\ hd' = [hd EXCEPT ![NewHandler] = [me EXCEPT !.pc = "s_resume",
                                                           !.device = r0.current_device]]
            /\ resp' = resp
       ELSE IF current.uid = uid
       THEN \* same tag, already playing: return the current state
            /\ rs' = r0
            /\ hd' = hd
            /\ resp' = Respond(uid, FALSE, current.playback_url)
       ELSE IF current.uid # "none"
       THEN \* another tag: stop_reader_playback(save_resume=False), await stop_device
            /\ ScanSlot
            /\ rs' = Cleared(r0)
            /\ hd' = [hd EXCEPT ![NewHandler] = [me EXCEPT !.pc = "s_stop",
                                                           !.device = r0.current_device]]
            /\ resp' = resp
       ELSE \* await teddycloud_client.find_tonie_by_uid(uid)
            /\ ScanSlot
            /\ rs' = r0
            /\ hd' = [hd EXCEPT ![NewHandler] = [me EXCEPT !.pc = "s_find"]]
            /\ resp' = resp
    /\ UNCHANGED nonReaderVars

\* resume_device returns in the same-tag branch
ScanResumeDone(h) ==
    /\ hd[h].pc = "s_resume"
    /\ LET d == hd[h].device
           resumed == resume_result(d, devs[d])
       IN
       /\ devs' = [devs EXCEPT ![d] = resume_device(d, @)]
       /\ rs' = IF resumed THEN [rs EXCEPT !.resume = NoResume] ELSE rs
       /\ resp' = Respond(hd[h].uid, resumed, build_playback_url(hd[h].uid))
    /\ hd' = [hd EXCEPT ![h] = IdleHandler]
    /\ UNCHANGED nonReaderVars

\* stop_device returns; the handler goes on to await find_tonie_by_uid
ScanStopDone(h) ==
    /\ hd[h].pc = "s_stop"
    /\ devs' = [devs EXCEPT ![hd[h].device] = stop_device(hd[h].device, @)]
    /\ hd' = [hd EXCEPT ![h] = [@ EXCEPT !.pc = "s_find", !.device = "none"]]
    /\ UNCHANGED <<rs, resp>>
    /\ UNCHANGED nonReaderVars

\* find_tonie_by_uid returns: the resume record is consumed, the reader state is
\* written, the response is built and the playback call is awaited.  A uid the
\* content source does not resolve takes the "library/unknown item" branch, which
\* writes the same state fields and, for a network device, creates the
\* encode_and_play_lib task (play_on_device without a start position).
ScanFindDone(h) ==
    /\ hd[h].pc = "s_find"
    /\ LET uid == hd[h].uid
           tonie == uid \in Tags
           reader_device == hd[h].override
           resume == rs.resume
           should_resume == resume.uid = uid /\ resume.paused
           same_device == resume.device = reader_device
           start_position == IF resume.uid = uid THEN resume.position ELSE 0
       IN
       /\ rs' = [rs EXCEPT !.resume = IF resume.uid = uid THEN NoResume ELSE @,
                           !.current_tag = [uid |-> uid,
                                            playback_url |-> build_playback_url(uid)],
                           !.started = TRUE,
                           !.elapsed = 0,
                           !.current_offset = start_position,
                           !.current_device = reader_device]
       /\ hd' = [hd EXCEPT ![h] =
                    IF tonie
                    THEN [@ EXCEPT !.pc = "s_play", !.device = reader_device,
                                   !.override = "none",
                                   !.position = start_position,
                                   !.resume_first = reader_device = "airplay"
                                                    /\ should_resume /\ same_device]
                    ELSE IF reader_device = "airplay"
                    THEN [@ EXCEPT !.pc = "s_play", !.device = reader_device,
                                   !.override = "none", !.position = 0,
                                   !.resume_first = FALSE]
                    ELSE IdleHandler]
       /\ resp' = Respond(uid, tonie \/ reader_device = "airplay", build_playback_url(uid))
    /\ UNCHANGED devs
    /\ UNCHANGED nonReaderVars

\* encode_and_play reaches the device: resume_device first when the tag returned to
\* the same device, play_on_device otherwise or when the resume failed
ScanPlayDone(h) ==
    /\ hd[h].pc = "s_play"
    /\ LET d == hd[h].device IN
       devs' = [devs EXCEPT ![d] = IF hd[h].resume_first /\ resume_result(d, @)
                                   THEN resume_device(d, @)
                                   ELSE play_on_device(d, @, hd[h].position)]
    /\ hd' = [hd EXCEPT ![h] = IdleHandler]
    /\ UNCHANGED <<rs, resp>>
    /\ UNCHANGED nonReaderVars

\* POST /tonie with uid = null: stop_reader_playback(save_resume=True, pause_only=True)
\* up to the await of pause_device
Remove ==
    /\ devs' = devs
    /\ IF rs.current_tag.uid = "none"
       THEN /\ resp' = Respond("", FALSE, "none")
            /\ UNCHANGED <<rs, hd>>
       ELSE /\ Quiet
            /\ rs' = [rs EXCEPT !.resume = [uid |-> rs.current_tag.uid,
                                            position |-> get_resume_position(rs),
                                            device |-> rs.current_device,
                                            paused |-> TRUE]]
            /\ hd' = [hd EXCEPT ![NewHandler] = [IdleHandler EXCEPT !.kind = "remove",
                                                    !.pc = "r_pause",
                                                    !.device = rs.current_device]]
            /\ resp' = resp
    /\ UNCHANGED nonReaderVars

\* pause_device returns to the removal handler
RemovePauseDone(h) ==
    /\ hd[h].pc = "r_pause"
    /\ devs' = [devs EXCEPT ![hd[h].device] = pause_device(hd[h].device, @)]
    /\ hd' = [hd EXCEPT ![h] = IdleHandler]
    /\ resp' = Respond("", FALSE, "none")
    /\ UNCHANGED rs
    /\ UNCHANGED nonReaderVars

\* POST /readers/{reader_ip}/playback/stop: stop_reader_playback(save_resume=True)
PlaybackStop ==
    /\ rs.current_tag.uid # "none"
    /\ Quiet
    /\ rs' = [Cleared(rs) EXCEPT !.resume = [uid |-> rs.current_tag.uid,
                                             position |-> get_resume_position(rs),
                                             device |-> rs.current_device,
                                             paused |-> FALSE]]
    /\ hd' = [hd EXCEPT ![NewHandler] = [IdleHandler EXCEPT !.kind = "stop", !.pc = "p_stop",
                                                            !.device = rs.current_device]]
    /\ UNCHANGED <<devs, resp>>
    /\ UNCHANGED nonReaderVars

\* stop_device returns to reader_playback_stop
PlaybackStopDone(h) ==
    /\ hd[h].pc = "p_stop"
    /\ devs' = [devs EXCEPT ![hd[h].device] = stop_device(hd[h].device, @)]
    /\ hd' = [hd EXCEPT ![h] = IdleHandler]
    /\ UNCHANGED <<rs, resp>>
    /\ UNCHANGED nonReaderVars

\* POST /readers/{reader_ip}/playback/pause up to the await of pause_device; without
\* a current tag the device is get_device_for_reader and pause_device returns at once
PlaybackPause ==
    /\ rs.current_tag.uid # "none" \/ rs.current_device # "none"
    /\ Quiet
    /\ rs' = IF rs.current_tag.uid # "none"
             THEN [rs EXCEPT !.resume = [uid |-> rs.current_tag.uid,
                                         position |-> get_resume_position(rs),
                                         device |-> rs.current_device,
                                         paused |-> TRUE],
                             !.current_offset = get_resume_position(rs),
                             !.started = FALSE,
                             !.elapsed = 0]
             ELSE rs
    /\ hd' = [hd EXCEPT ![NewHandler] = [IdleHandler EXCEPT !.kind = "pause", !.pc = "p_pause",
                                                            !.device = rs.current_device]]
    /\ UNCHANGED <<devs, resp>>
    /\ UNCHANGED nonReaderVars

\* pause_device returns to reader_playback_pause
PlaybackPauseDone(h) ==
    /\ hd[h].pc = "p_pause"
    /\ devs' = [devs EXCEPT ![hd[h].device] = pause_device(hd[h].device, @)]
    /\ hd' = [hd EXCEPT ![h] = IdleHandler]
    /\ UNCHANGED <<rs, resp>>
    /\ UNCHANGED nonReaderVars

\* POST /readers/{reader_ip}/playback/play up to the await of resume_device
PlaybackPlay ==
    /\ rs.current_device # "none"
    /\ Quiet
    /\ LET resume == rs.resume
           should_resume == /\ rs.current_tag.uid # "none"
                            /\ resume.uid = rs.current_tag.uid
                            /\ resume.paused
                            /\ resume.device = rs.current_device
       IN hd' = [hd EXCEPT ![NewHandler] =
                    [IdleHandler EXCEPT !.kind = "play", !.pc = "pp_resume",
                                        !.device = rs.current_device,
                                        !.position = resume.position,
                                        !.resume_first = should_resume]]
    /\ UNCHANGED <<rs, devs, resp>>
    /\ UNCHANGED nonReaderVars

\* on success of a should_resume play the reader state is restarted at resume.position
Resumed(r, position) ==
    [r EXCEPT !.started = TRUE, !.elapsed = 0, !.current_offset = position,
              !.resume = NoResume]

\* resume_device returns to reader_playback_play; on failure of a should_resume
\* play_on_device(start_position = resume.position) is awaited
PlaybackPlayResumeDone(h) ==
    /\ hd[h].pc = "pp_resume"
    /\ LET d == hd[h].device
           success == resume_result(d, devs[d])
       IN
       /\ devs' = [devs EXCEPT ![d] = resume_device(d, @)]
       /\ IF hd[h].resume_first /\ ~success
          THEN /\ hd' = [hd EXCEPT ![h] = [@ EXCEPT !.pc = "pp_play"]]
               /\ rs' = rs
          ELSE /\ hd' = [hd EXCEPT ![h] = IdleHandler]
               /\ rs' = IF hd[h].resume_first THEN Resumed(rs, hd[h].position) ELSE rs
    /\ UNCHANGED resp
    /\ UNCHANGED nonReaderVars

\* the fallback play_on_device returns to reader_playback_play
PlaybackPlayFallbackDone(h) ==
    /\ hd[h].pc = "pp_play"
    /\ devs' = [devs EXCEPT ![hd[h].device] = play_on_device(hd[h].device, @, hd[h].position)]
    /\ rs' = Resumed(rs, hd[h].position)
    /\ hd' = [hd EXCEPT ![h] = IdleHandler]
    /\ UNCHANGED resp
    /\ UNCHANGED nonReaderVars

\* POST /control with action stop or pause, up to the await of the device call
Control(action) ==
    /\ rs.current_tag.uid # "none"
    /\ Quiet
    /\ hd' = [hd EXCEPT ![NewHandler] =
                 [IdleHandler EXCEPT !.kind = "control",
                                     !.pc = IF action = "stop" THEN "c_stop" ELSE "c_pause",
                                     !.device = IF rs.target_device # "none"
                                                THEN rs.target_device
                                                ELSE rs.current_device]]
    /\ UNCHANGED <<rs, devs, resp>>
    /\ UNCHANGED nonReaderVars

\* stop_device returns to handle_control_command, which clears the stream state
ControlStopDone(h) ==
    /\ hd[h].pc = "c_stop"
    /\ devs' = [devs EXCEPT ![hd[h].device] = stop_device(hd[h].device, @)]
    /\ rs' = [rs EXCEPT !.current_tag = NoTag, !.mode = "local", !.target_device = "none"]
    /\ hd' = [hd EXCEPT ![h] = IdleHandler]
    /\ UNCHANGED resp
    /\ UNCHANGED nonReaderVars

\* pause_device returns to handle_control_command
ControlPauseDone(h) ==
    /\ hd[h].pc = "c_pause"
    /\ devs' = [devs EXCEPT ![hd[h].device] = pause_device(hd[h].device, @)]
    /\ hd' = [hd EXCEPT ![h] = IdleHandler]
    /\ UNCHANGED <<rs, resp>>
    /\ UNCHANGED nonReaderVars

\* GET /streams read more than 180 s after the reader was last seen: the
\* stale-stream reaper clears current_tag of an ESPuino stream
GetStreams ==
    /\ rs.current_tag.uid # "none"
    /\ rs.current_device = "espuino"
    /\ Quiet
    /\ rs' = [rs EXCEPT !.current_tag = NoTag]
    /\ UNCHANGED <<devs, hd, resp>>
    /\ UNCHANGED nonReaderVars

\* one unit of time passes: playing devices advance, and so does time.time()
Tick ==
    /\ rs' = IF rs.started /\ rs.elapsed < MaxPos THEN [rs EXCEPT !.elapsed = @ + 1] ELSE rs
    /\ devs' = [d \in Devices |->
                   IF devs[d].st = "playing" /\ devs[d].pos < MaxPos
                   THEN [devs[d] EXCEPT !.pos = @ + 1] ELSE devs[d]]
    /\ <<rs', devs'>> # <<rs, devs>>
    /\ UNCHANGED <<hd, resp>>
    /\ UNCHANGED nonReaderVars

NextReader ==
    \/ \E uid \in Uids, mode \in Modes : Scan(uid, mode)
    \/ \E h \in Handlers : ScanResumeDone(h)
    \/ \E h \in Handlers : ScanStopDone(h)
    \/ \E h \in Handlers : ScanFindDone(h)
    \/ \E h \in Handlers : ScanPlayDone(h)
    \/ Remove
    \/ \E h \in Handlers : RemovePauseDone(h)
    \/ PlaybackStop
    \/ \E h \in Handlers : PlaybackStopDone(h)
    \/ PlaybackPause
    \/ \E h \in Handlers : PlaybackPauseDone(h)
    \/ PlaybackPlay
    \/ \E h \in Handlers : PlaybackPlayResumeDone(h)
    \/ \E h \in Handlers : PlaybackPlayFallbackDone(h)
    \/ \E action \in {"stop", "pause"} : Control(action)
    \/ \E h \in Handlers : ControlStopDone(h)
    \/ \E h \in Handlers : ControlPauseDone(h)
    \/ GetStreams
    \/ Tick

(***************************************************************************)
(* SD-mirror upload engine (main.py, services/devices.py).  One ESPuino    *)
(* with an SD card; the album mirrored has UpTracks tracks, all of them in *)
(* the cache.  The files of the card are the tracks 0 .. UpTracks-1, the   *)
(* index metadata.json and the UID map.                                    *)
(***************************************************************************)
UpTracks == 1         \* tracks of the mirrored album

EspIps == {"e1"}
Runs == {"u1", "u2"}                 \* upload tasks that can exist at once
TrackFiles == 0 .. (UpTracks - 1)
MetaFile == UpTracks                 \* {folder}/metadata.json
MapFile == UpTracks + 1              \* /teddycloud/uids/{suffix}.json
SdFiles == 0 .. (UpTracks + 1)

NoStatus == [status |-> "none", source_path |-> FALSE]
\* before_cancel is a history field, read by no action: the task existed when a
\* cancel request removed the intent of its device from the queue
IdleRun == [kind |-> "idle", ip |-> "none", pc |-> "off", stage |-> "none", todo |-> <<>>,
            uploaded |-> FALSE, uid_map_success |-> FALSE, before_cancel |-> FALSE]

\* _load_upload_queue of a first start: no upload_queue.json
InitUpload ==
    /\ pending_uploads = [ip \in EspIps |-> FALSE]
    /\ upload_status = [ip \in EspIps |-> [f \in SdFiles |-> NoStatus]]
    /\ upload_cancel = {}
    /\ sd = [ip \in EspIps |-> [f \in SdFiles |-> "absent"]]
    /\ rfid = [ip \in EspIps |-> FALSE]
    /\ run = [u \in Runs |-> IdleRun]

\* set_upload_status builds a new entry: source_path is kept only when passed
set_upload_status(st, f, status, source_path) ==
    [st EXCEPT ![f] = [status |-> status, source_path |-> source_path]]

clear_upload_status(st, f) == [st EXCEPT ![f] = NoStatus]

clear_uploads_for_espuino(st) == [f \in SdFiles |-> NoStatus]

\* get_failed_uploads(espuino_ip): the entries in error
get_failed_uploads(st) == {f \in SdFiles : st[f].status = "error"}

queue_upload(p, ip) == [p EXCEPT ![ip] = TRUE]

clear_pending_upload(p, ip) == [p EXCEPT ![ip] = FALSE]

\* a set of track indices as the ascending list the code iterates over
RECURSIVE SeqOf(_)
SeqOf(S) ==
    IF S = {} THEN <<>>
    ELSE LET m == CHOOSE x \in S : \A y \in S : x <= y
         IN <<m>> \o SeqOf(S \ {m})

\* verify_espuino_upload: the index is metadata.json when the folder lists it,
\* else the UID map; each indexed track is missing, of the wrong size, or verified
verify_espuino_upload(card) ==
    LET metadata == IF card[MetaFile] # "absent" THEN card[MetaFile] = "ok"
                    ELSE card[MapFile] = "ok"
        missing == IF metadata THEN {t \in TrackFiles : card[t] = "absent"} ELSE {}
        mismatch == IF metadata THEN {t \in TrackFiles : card[t] = "partial"} ELSE {}
    IN [metadata |-> metadata, missing_tracks |-> missing, size_mismatch |-> mismatch,
        complete |-> metadata /\ missing = {} /\ mismatch = {}]

\* delete_espuino_file for every index of size_mismatch
DeleteFiles(card, S) == [f \in SdFiles |-> IF f \in S THEN "absent" ELSE card[f]]

\* check_espuino_sd_ready: every expected track file is listed, whatever its
\* size; a listing that does not arrive counts as not ready
check_espuino_sd_ready(card, reachable) ==
    reachable /\ \A t \in TrackFiles : card[t] # "absent"

\* what upload_to_espuino hands back to the loop that called it
AfterResult(r, success) ==
    LET f == Head(r.todo) IN
    [r EXCEPT !.todo = Tail(@),
              !.uploaded = @ \/ (success /\ r.stage = "sd_first" /\ f \in TrackFiles),
              !.uid_map_success = IF r.kind = "scan" /\ f = MapFile THEN success ELSE @]

\* A run goes on up to its next suspension.  upload_to_espuino of the next
\* file of the list sets "uploading" and awaits ensure_dir, or, with the
\* cancel flag set, fails before any await; when the list of a stage is
\* exhausted the run enters the next stage, awaits the verification, or ends.
RECURSIVE Drive(_, _, _)
Drive(r, st, cancelled) ==
    IF r.todo # <<>>
    THEN IF cancelled
         THEN Drive(AfterResult(r, FALSE),
                    set_upload_status(st, Head(r.todo), "error", FALSE), cancelled)
         ELSE [r |-> [r EXCEPT !.pc = "xfer_dir"],
               st |-> set_upload_status(st, Head(r.todo), "uploading", TRUE),
               clear |-> FALSE]
    ELSE IF r.stage = "sd_first" /\ r.uploaded
    THEN Drive([r EXCEPT !.stage = "sd_meta", !.todo = <<MetaFile>>], st, cancelled)
    ELSE IF r.stage \in {"sd_first", "sd_meta"}
    THEN [r |-> [r EXCEPT !.pc = "sd_verify1", !.stage = "none"], st |-> st, clear |-> FALSE]
    ELSE IF r.stage = "sd_maprt" /\ r.uid_map_success
    THEN [r |-> [r EXCEPT !.pc = "sd_rfid", !.stage = "none"], st |-> st, clear |-> FALSE]
    ELSE IF r.stage = "rp_all"
    THEN [r |-> [r EXCEPT !.pc = "rp_verify1", !.stage = "none"], st |-> st, clear |-> FALSE]
    ELSE \* the task returns; after the upload of a UID map that alone was
         \* missing, clear_pending_upload comes first
         [r |-> IdleRun, st |-> st, clear |-> r.stage = "sd_mapfix"]

\* the run u of device ip goes on from r, with the statuses st and the queue p
Continue(u, ip, r, st, p) ==
    LET d == Drive(r, st, ip \in upload_cancel) IN
    /\ run' = [run EXCEPT ![u] = d.r]
    /\ upload_status' = [upload_status EXCEPT ![ip] = d.st]
    /\ pending_uploads' = IF d.clear THEN clear_pending_upload(p, ip) ELSE p

FreeRuns == {u \in Runs : run[u].kind = "idle"}
\* the task a create_task call makes
NewRun == CHOOSE u \in FreeRuns : TRUE

\* encode_and_play: playback started on the ESPuino of a physical reader in
\* local mode, not from the SD card: asyncio.create_task(upload_to_sd())
SpawnUploadToSd(ip, reachable) ==
    /\ FreeRuns # {}
    /\ ~check_espuino_sd_ready(sd[ip], reachable)
    /\ run' = [run EXCEPT ![NewRun] = [IdleRun EXCEPT !.kind = "scan", !.ip = ip,
                                                       !.pc = "start"]]
    /\ UNCHANGED <<pending_uploads, upload_status, upload_cancel, sd, rfid>>
    /\ UNCHANGED nonUploadVars

\* POST /readers/{reader_ip}/heartbeat with a pending intent:
\* asyncio.create_task(resume_pending_upload(reader_ip, pending))
reader_heartbeat(ip) ==
    /\ FreeRuns # {}
    /\ pending_uploads[ip]
    /\ run' = [run EXCEPT ![NewRun] = [IdleRun EXCEPT !.kind = "resume", !.ip = ip,
                                                       !.pc = "start"]]
    /\ UNCHANGED <<pending_uploads, upload_status, upload_cancel, sd, rfid>>
    /\ UNCHANGED nonUploadVars

\* POST /uploads/retry: every failed entry that still names its source_path is
\* cleared and handed to a do_retry task; an entry without it is skipped
retry_failed_uploads(ip) ==
    LET failed == get_failed_uploads(upload_status[ip])
        retried == {f \in failed : upload_status[ip][f].source_path}
    IN
    /\ Cardinality(retried) <= Cardinality(FreeRuns)
    /\ \E task \in [retried -> FreeRuns] :
          /\ \A f, g \in retried : task[f] = task[g] => f = g
          /\ run' = [u \in Runs |->
                        IF \E f \in retried : task[f] = u
                        THEN [IdleRun EXCEPT !.kind = "retry", !.ip = ip, !.pc = "start",
                                             !.stage = "retry",
                                             !.todo = <<CHOOSE f \in retried : task[f] = u>>]
                        ELSE run[u]]
    /\ upload_status' = [upload_status EXCEPT ![ip] =
                            [f \in SdFiles |-> IF f \in retried THEN NoStatus ELSE @[f]]]
    /\ UNCHANGED <<pending_uploads, upload_cancel, sd, rfid>>
    /\ UNCHANGED nonUploadVars

\* A created task starts running.  upload_to_sd waits, asleep, until the
\* encoding status is final, gives up on "error", queues the intent, clears
\* the old statuses and awaits the first verification; resume_pending_upload
\* awaits its verification; do_retry calls upload_to_espuino.
TaskStart(u, encoding_status) ==
    /\ run[u].pc = "start"
    /\ LET ip == run[u].ip IN
       IF run[u].kind = "scan"
       THEN IF encoding_status = "encoding"
            THEN /\ run' = [run EXCEPT ![u] = [@ EXCEPT !.pc = "sd_wait"]]
                 /\ UNCHANGED <<pending_uploads, upload_status>>
            ELSE IF encoding_status = "error"
            THEN /\ run' = [run EXCEPT ![u] = IdleRun]
                 /\ UNCHANGED <<pending_uploads, upload_status>>
            ELSE /\ run' = [run EXCEPT ![u] = [@ EXCEPT !.pc = "sd_verify0"]]
                 /\ pending_uploads' = queue_upload(pending_uploads, ip)
                 /\ upload_status' = [upload_status EXCEPT
                                         ![ip] = clear_uploads_for_espuino(@)]
       ELSE IF run[u].kind = "resume"
       THEN /\ encoding_status = "cached"
            /\ run' = [run EXCEPT ![u] = [@ EXCEPT !.pc = "rp_verify0"]]
            /\ UNCHANGED <<pending_uploads, upload_status>>
       ELSE /\ encoding_status = "cached"
            /\ Continue(u, ip, run[u], upload_status[ip], pending_uploads)
    /\ UNCHANGED <<upload_cancel, sd, rfid>>
    /\ UNCHANGED nonUploadVars

\* upload_to_sd: asyncio.sleep(2) of the wait loop ends with a final status
SdWaitDone(u, final_status) ==
    /\ run[u].pc = "sd_wait"
    /\ LET ip == run[u].ip IN
       IF final_status = "error"
       THEN /\ run' = [run EXCEPT ![u] = IdleRun]
            /\ UNCHANGED <<pending_uploads, upload_status>>
       ELSE /\ run' = [run EXCEPT ![u] = [@ EXCEPT !.pc = "sd_verify0"]]
            /\ pending_uploads' = queue_upload(pending_uploads, ip)
            /\ upload_status' = [upload_status EXCEPT ![ip] = clear_uploads_for_espuino(@)]
    /\ UNCHANGED <<upload_cancel, sd, rfid>>
    /\ UNCHANGED nonUploadVars

\* upload_to_sd: the verification before the upload returns
SdVerify0Done(u) ==
    /\ run[u].pc = "sd_verify0"
    /\ LET ip == run[u].ip
           existing_check == verify_espuino_upload(sd[ip])
           needs_upload == IF existing_check.metadata
                           THEN SeqOf(existing_check.missing_tracks)
                                \o SeqOf(existing_check.size_mismatch)
                           ELSE SeqOf(TrackFiles)
       IN
       IF existing_check.metadata /\ needs_upload = <<>>
       THEN \* upload already complete: await check_espuino_file_exists(uid_map_path)
            /\ run' = [run EXCEPT ![u] = [@ EXCEPT !.pc = "sd_mapcheck"]]
            /\ UNCHANGED <<pending_uploads, upload_status>>
       ELSE \* the UID map first, then the tracks
            Continue(u, ip, [run[u] EXCEPT !.stage = "sd_first",
                                           !.todo = <<MapFile>> \o needs_upload],
                     upload_status[ip], pending_uploads)
    /\ UNCHANGED <<upload_cancel, sd, rfid>>
    /\ UNCHANGED nonUploadVars

\* upload_to_sd, upload already complete: check_espuino_file_exists returns
SdMapCheckDone(u) ==
    /\ run[u].pc = "sd_mapcheck"
    /\ LET ip == run[u].ip
           uid_map_exists == sd[ip][MapFile] # "absent"
       IN
       IF uid_map_exists
       THEN /\ run' = [run EXCEPT ![u] = IdleRun]
            /\ pending_uploads' = clear_pending_upload(pending_uploads, ip)
            /\ UNCHANGED upload_status
       ELSE Continue(u, ip, [run[u] EXCEPT !.stage = "sd_mapfix", !.todo = <<MapFile>>],
                     upload_status[ip], pending_uploads)
    /\ UNCHANGED <<upload_cancel, sd, rfid>>
    /\ UNCHANGED nonUploadVars

\* upload_to_espuino: ensure_dir returns; the retry loop checks the cancel flag,
\* then sets "uploading" anew (without source_path) and posts the file
XferDirDone(u) ==
    /\ run[u].pc = "xfer_dir"
    /\ LET ip == run[u].ip
           f == Head(run[u].todo)
       IN
       IF ip \in upload_cancel
       THEN Continue(u, ip, AfterResult(run[u], FALSE),
                     set_upload_status(upload_status[ip], f, "error", FALSE), pending_uploads)
       ELSE /\ run' = [run EXCEPT ![u] = [@ EXCEPT !.pc = "xfer_post"]]
            /\ upload_status' = [upload_status EXCEPT
                                    ![ip] = set_upload_status(@, f, "uploading", FALSE)]
            /\ UNCHANGED pending_uploads
    /\ UNCHANGED <<upload_cancel, sd, rfid>>
    /\ UNCHANGED nonUploadVars

\* upload_to_espuino: the post ends.  "ok": HTTP 200, the file is on the card;
\* "partial": the transfer broke off (stall, cancel, timeout) and left a
\* shorter file; "failed": every attempt was refused and nothing was written.
\* An index file is written whole or not at all.
XferPostDone(u, outcome) ==
    /\ run[u].pc = "xfer_post"
    /\ LET ip == run[u].ip
           f == Head(run[u].todo)
       IN
       /\ outcome = "partial" => f \in TrackFiles
       /\ sd' = [sd EXCEPT ![ip][f] = IF outcome = "failed" THEN @ ELSE outcome]
       /\ Continue(u, ip, AfterResult(run[u], outcome = "ok"),
                   set_upload_status(upload_status[ip], f,
                                     IF outcome = "ok" THEN "complete" ELSE "error", FALSE),
                   pending_uploads)
    /\ UNCHANGED <<upload_cancel, rfid>>
    /\ UNCHANGED nonUploadVars

\* upload_to_sd: the verification after the upload returns.  Incomplete:
\* the corrupted files are deleted, the missing and corrupted tracks are
\* uploaded again, then metadata.json (metadata_path is bound only when the
\* first pass uploaded a track; the NameError ends the task).  Complete: the
\* UID map is retried if its upload failed, then the RFID mapping is set.
SdVerify1Done(u) ==
    /\ run[u].pc = "sd_verify1"
    /\ LET ip == run[u].ip
           verification == verify_espuino_upload(sd[ip])
           retry_indices == SeqOf(verification.missing_tracks)
                            \o SeqOf(verification.size_mismatch)
       IN
       IF ~verification.complete
       THEN IF retry_indices # <<>>
            THEN /\ sd' = [sd EXCEPT ![ip] = DeleteFiles(@, verification.size_mismatch)]
                 /\ Continue(u, ip,
                             [run[u] EXCEPT !.stage = "sd_retry",
                                            !.todo = retry_indices \o
                                                (IF run[u].uploaded THEN <<MetaFile>>
                                                 ELSE <<>>)],
                             upload_status[ip], pending_uploads)
            ELSE /\ run' = [run EXCEPT ![u] = IdleRun]
                 /\ UNCHANGED <<pending_uploads, upload_status, sd>>
       ELSE IF ~run[u].uid_map_success
       THEN /\ Continue(u, ip, [run[u] EXCEPT !.stage = "sd_maprt", !.todo = <<MapFile>>],
                        upload_status[ip], pending_uploads)
            /\ UNCHANGED sd
       ELSE /\ run' = [run EXCEPT ![u] = [@ EXCEPT !.pc = "sd_rfid"]]
            /\ UNCHANGED <<pending_uploads, upload_status, sd>>
    /\ UNCHANGED <<upload_cancel, rfid>>
    /\ UNCHANGED nonUploadVars

\* upload_to_sd: set_espuino_rfid_mapping returns, then clear_pending_upload
SdRfidDone(u, ok) ==
    /\ run[u].pc = "sd_rfid"
    /\ rfid' = [rfid EXCEPT ![run[u].ip] = @ \/ ok]
    /\ pending_uploads' = clear_pending_upload(pending_uploads, run[u].ip)
    /\ run' = [run EXCEPT ![u] = IdleRun]
    /\ UNCHANGED <<upload_status, upload_cancel, sd>>
    /\ UNCHANGED nonUploadVars

\* resume_pending_upload: the first verification returns
RpVerify0Done(u) ==
    /\ run[u].pc = "rp_verify0"
    /\ LET ip == run[u].ip
           verification == verify_espuino_upload(sd[ip])
           retry_indices == IF ~verification.metadata THEN SeqOf(TrackFiles)
                            ELSE SeqOf(verification.missing_tracks)
                                 \o SeqOf(verification.size_mismatch)
       IN
       IF verification.complete \/ retry_indices = <<>>
       THEN /\ run' = [run EXCEPT ![u] = IdleRun]
            /\ pending_uploads' = clear_pending_upload(pending_uploads, ip)
            /\ UNCHANGED <<upload_status, sd>>
       ELSE \* corrupted files are deleted; tracks, metadata.json and UID map follow
            /\ sd' = [sd EXCEPT ![ip] = DeleteFiles(@, verification.size_mismatch)]
            /\ Continue(u, ip, [run[u] EXCEPT !.stage = "rp_all",
                                              !.todo = retry_indices \o <<MetaFile, MapFile>>],
                        upload_status[ip], pending_uploads)
    /\ UNCHANGED <<upload_cancel, rfid>>
    /\ UNCHANGED nonUploadVars

\* resume_pending_upload: the second verification returns
RpVerify1Done(u) ==
    /\ run[u].pc = "rp_verify1"
    /\ run' = [run EXCEPT ![u] = IF verify_espuino_upload(sd[run[u].ip]).complete
                                 THEN [@ EXCEPT !.pc = "rp_rfid"]
                                 ELSE IdleRun]
    /\ UNCHANGED <<pending_uploads, upload_status, upload_cancel, sd, rfid>>
    /\ UNCHANGED nonUploadVars

\* resume_pending_upload: set_espuino_rfid_mapping returns, then
\* clear_pending_upload
RpRfidDone(u, ok) ==
    /\ run[u].pc = "rp_rfid"
    /\ rfid' = [rfid EXCEPT ![run[u].ip] = @ \/ ok]
    /\ pending_uploads' = clear_pending_upload(pending_uploads, run[u].ip)
    /\ run' = [run EXCEPT ![u] = IdleRun]
    /\ UNCHANGED <<upload_status, upload_cancel, sd>>
    /\ UNCHANGED nonUploadVars

\* request_cancel_uploads: the flag is set, the intent is cleared, every entry of
\* the device is marked in place as an error (its source_path stays)
request_cancel_uploads(st) ==
    [f \in SdFiles |-> IF st[f].status = "none" THEN st[f]
                       ELSE [st[f] EXCEPT !.status = "error"]]

\* DELETE /uploads/pending: request_cancel_uploads, clear_pending_upload,
\* clear_uploads_for_espuino
DeletePendingUpload(ip) ==
    /\ upload_cancel' = upload_cancel \cup {ip}
    /\ pending_uploads' = clear_pending_upload(pending_uploads, ip)
    /\ upload_status' = [upload_status EXCEPT
                            ![ip] = clear_uploads_for_espuino(request_cancel_uploads(@))]
    /\ run' = [u \in Runs |-> IF run[u].ip = ip /\ pending_uploads[ip]
                               THEN [run[u] EXCEPT !.before_cancel = TRUE]
                               ELSE run[u]]
    /\ <<upload_cancel', pending_uploads', upload_status', run'>>
           # <<upload_cancel, pending_uploads, upload_status, run>>
    /\ UNCHANGED <<sd, rfid>>
    /\ UNCHANGED nonUploadVars

\* _clear_cancel_flag_later: 15 s after a cancel request the flag is dropped
ClearCancelFlag(ip) ==
    /\ ip \in upload_cancel
    /\ upload_cancel' = upload_cancel \ {ip}
    /\ UNCHANGED <<pending_uploads, upload_status, sd, rfid, run>>
    /\ UNCHANGED nonUploadVars

\* cleanup_status: 5 s after a completed upload its entry is dropped
CleanupStatus(ip, f) ==
    /\ upload_status[ip][f].status = "complete"
    /\ upload_status' = [upload_status EXCEPT ![ip] = clear_upload_status(@, f)]
    /\ UNCHANGED <<pending_uploads, upload_cancel, sd, rfid, run>>
    /\ UNCHANGED nonUploadVars

\* The process is restarted: every task ends where it is (a post under way may
\* leave a shorter track file on the card), the in-memory statuses and cancel
\* flags are gone, _load_upload_queue reads back upload_queue.json, which
\* _save_upload_queue wrote at every change of _pending_uploads; lifespan
\* creates no upload task
Restart(cut) ==
    /\ run' = [u \in Runs |-> IdleRun]
    /\ upload_status' = [ip \in EspIps |-> [f \in SdFiles |-> NoStatus]]
    /\ upload_cancel' = {}
    /\ sd' = [ip \in EspIps |->
                [f \in SdFiles |->
                    IF /\ cut
                       /\ f \in TrackFiles
                       /\ \E u \in Runs : /\ run[u].ip = ip
                                          /\ run[u].pc = "xfer_post"
                                          /\ Head(run[u].todo) = f
                    THEN "partial" ELSE sd[ip][f]]]
    /\ <<run', upload_status', upload_cancel'>> # <<run, upload_status, upload_cancel>>
    /\ UNCHANGED <<pending_uploads, rfid>>
    /\ UNCHANGED nonUploadVars

NextUpload ==
    \/ \E ip \in EspIps, reachable \in BOOLEAN : SpawnUploadToSd(ip, reachable)
    \/ \E ip \in EspIps : reader_heartbeat(ip)
    \/ \E ip \in EspIps : retry_failed_uploads(ip)
    \/ \E u \in Runs, s \in {"encoding", "cached", "error"} : TaskStart(u, s)
    \/ \E u \in Runs, s \in {"cached", "error"} : SdWaitDone(u, s)
    \/ \E u \in Runs : SdVerify0Done(u)
    \/ \E u \in Runs : SdMapCheckDone(u)
    \/ \E u \in Runs : XferDirDone(u)
    \/ \E u \in Runs, outcome \in {"ok", "partial", "failed"} : XferPostDone(u, outcome)
    \/ \E u \in Runs : SdVerify1Done(u)
    \/ \E u \in Runs, ok \in BOOLEAN : SdRfidDone(u, ok)
    \/ \E u \in Runs : RpVerify0Done(u)
    \/ \E u \in Runs : RpVerify1Done(u)
    \/ \E u \in Runs, ok \in BOOLEAN : RpRfidDone(u, ok)
    \/ \E ip \in EspIps : DeletePendingUpload(ip)
    \/ \E ip \in EspIps : ClearCancelFlag(ip)
    \/ \E ip \in EspIps, f \in SdFiles : CleanupStatus(ip, f)
    \/ \E cut \in BOOLEAN : Restart(cut)

(***************************************************************************)
(* Stream listing and the stale-stream reaper (main.py).  Several readers, *)
(* of which only what get_streams reads is kept: whether a tag is current, *)
(* the type of the current device, and the reader's entry in               *)
(* connected_readers.  Time passes in steps of the smart-ping period.      *)
(***************************************************************************)
MaxSilence == 4       \* periods a reader can stay silent before time stops being counted

PingSeconds == 60     \* smart_ping_espuino_readers: asyncio.sleep(60)
StaleSeconds == 180   \* get_streams: seconds_since > 180

\* reader ips, as the prefix _is_virtual_reader tests and the rest
ReaderIps == {<<"192.168.1.", "50">>, <<"web-", "1">>, <<"browser-session", "">>}
DeviceTypes == {"espuino", "sonos"}

\* _is_virtual_reader
IsVirtualReader(ip) ==
    \/ ip \in {<<"manual-stream", "">>, <<"browser-session", "">>}
    \/ ip[1] = "web-"

NoReaderInfo == [known |-> FALSE, last_seen |-> 0]
NoStream == [current_tag |-> FALSE, current_device |-> "none"]

InitStreams ==
    /\ connected_readers = [ip \in ReaderIps |-> NoReaderInfo]
    /\ reader_states = [ip \in ReaderIps |-> NoStream]
    /\ listing = [todo |-> <<>>, out |-> {}]
    /\ streams = {}

\* the order get_streams walks reader_states in
RECURSIVE IpSeq(_)
IpSeq(S) ==
    IF S = {} THEN <<>>
    ELSE LET ip == CHOOSE x \in S : TRUE IN <<ip>> \o IpSeq(S \ {ip})

\* handle_tonie / play_tonie_for_reader as far as the listing is concerned: the
\* reader is entered into connected_readers or its last_seen is refreshed, the
\* tag becomes current on the device
StreamScan(ip, type) ==
    /\ connected_readers' = [connected_readers EXCEPT
                                ![ip] = [known |-> TRUE, last_seen |-> 0]]
    /\ reader_states' = [reader_states EXCEPT
                            ![ip] = [current_tag |-> TRUE, current_device |-> type]]
    /\ <<connected_readers', reader_states'>> # <<connected_readers, reader_states>>
    /\ UNCHANGED <<listing, streams>>
    /\ UNCHANGED nonStreamVars

\* POST /readers/{reader_ip}/heartbeat refreshes last_seen
StreamHeartbeat(ip) ==
    /\ ~IsVirtualReader(ip)
    /\ connected_readers' = [connected_readers EXCEPT
                                ![ip] = [known |-> TRUE, last_seen |-> 0]]
    /\ connected_readers' # connected_readers
    /\ UNCHANGED <<reader_states, listing, streams>>
    /\ UNCHANGED nonStreamVars

\* smart_ping_espuino_readers finds the ESPuino still playing the tag
SmartPing(ip) ==
    /\ reader_states[ip].current_tag
    /\ ~IsVirtualReader(ip)
    /\ reader_states[ip].current_device = "espuino"
    /\ connected_readers[ip].known
    /\ connected_readers[ip].last_seen # 0
    /\ connected_readers' = [connected_readers EXCEPT ![ip].last_seen = 0]
    /\ UNCHANGED <<reader_states, listing, streams>>
    /\ UNCHANGED nonStreamVars

\* DELETE /readers/{reader_ip}: the entry leaves connected_readers
RemoveReader(ip) ==
    /\ connected_readers[ip].known
    /\ connected_readers' = [connected_readers EXCEPT ![ip] = NoReaderInfo]
    /\ UNCHANGED <<reader_states, listing, streams>>
    /\ UNCHANGED nonStreamVars

\* stop_reader_playback: the stream of the reader ends
StreamStop(ip) ==
    /\ reader_states[ip].current_tag
    /\ reader_states' = [reader_states EXCEPT ![ip] = NoStream]
    /\ UNCHANGED <<connected_readers, listing, streams>>
    /\ UNCHANGED nonStreamVars

\* a smart-ping period passes
Clock ==
    /\ \E ip \in ReaderIps : /\ connected_readers[ip].known
                             /\ connected_readers[ip].last_seen < MaxSilence * PingSeconds
    /\ connected_readers' =
          [ip \in ReaderIps |->
              IF /\ connected_readers[ip].known
                 /\ connected_readers[ip].last_seen < MaxSilence * PingSeconds
              THEN [connected_readers[ip] EXCEPT !.last_seen = @ + PingSeconds]
              ELSE connected_readers[ip]]
    /\ UNCHANGED <<reader_states, listing, streams>>
    /\ UNCHANGED nonStreamVars

\* GET /streams starts: the loop takes list(reader_states.items())
ListBegin ==
    /\ listing.todo = <<>>
    /\ listing' = [todo |-> IpSeq(ReaderIps), out |-> {}]
    /\ UNCHANGED <<connected_readers, reader_states, streams>>
    /\ UNCHANGED nonStreamVars

\* the stale-stream test without the exemption of virtual readers
StaleAlsoVirtual(ip) ==
    /\ reader_states[ip].current_device = "espuino"
    /\ connected_readers[ip].known
    /\ connected_readers[ip].last_seen > StaleSeconds

\* the stale-stream test of get_streams
Stale(ip) ==
    /\ reader_states[ip].current_device = "espuino"
    /\ ~IsVirtualReader(ip)
    /\ connected_readers[ip].known
    /\ connected_readers[ip].last_seen > StaleSeconds

\* get_streams, one iteration: a reader without a current tag is skipped, a
\* stale ESPuino stream is cleared and skipped, any other stream is listed
\* (get_device_transport_state is awaited before the next iteration); after
\* the last iteration the list is returned
ListStep ==
    /\ listing.todo # <<>>
    /\ LET ip == Head(listing.todo)
           out == IF reader_states[ip].current_tag /\ ~Stale(ip)
                  THEN listing.out \cup {ip} ELSE listing.out
       IN
       /\ reader_states' = IF reader_states[ip].current_tag /\ Stale(ip)
                           THEN [reader_states EXCEPT ![ip].current_tag = FALSE]
                           ELSE reader_states
       /\ IF Tail(listing.todo) = <<>>
          THEN /\ streams' = out
               /\ listing' = [todo |-> <<>>, out |-> {}]
          ELSE /\ streams' = streams
               /\ listing' = [todo |-> Tail(listing.todo), out |-> out]
    /\ UNCHANGED connected_readers
    /\ UNCHANGED nonStreamVars

NextStreams ==
    \/ \E ip \in ReaderIps, type \in DeviceTypes : StreamScan(ip, type)
    \/ \E ip \in ReaderIps : StreamHeartbeat(ip)
    \/ \E ip \in ReaderIps : SmartPing(ip)
    \/ \E ip \in ReaderIps : RemoveReader(ip)
    \/ \E ip \in ReaderIps : StreamStop(ip)
    \/ Clock
    \/ ListBegin
    \/ ListStep

(***************************************************************************)
(* Device adapters (services/devices.py).  The adapters of the device      *)
(* types share no state, so a behaviour drives the device of one type:     *)
(* the one a reader was configured with.  Every call of the soco, pyatv,   *)
(* pychromecast and aiohttp libraries either returns or raises; what it    *)
(* does is drawn from Env.  An operation that needs a Cast connection is   *)
(* suspended while the discovery runs in the executor; every other         *)
(* operation awaits its one device only and is one step.  The audio url    *)
(* decides nothing in an adapter and is left out: the argument of play is  *)
(* its start_position, the argument of seek its position.                  *)
(***************************************************************************)
MaxFailures == 3      \* failed Cast connection attempts that are counted

AdapterTypes == {"browser", "sonos", "airplay", "chromecast", "espuino"}
AdapterOps == {"play", "play_list", "queue", "pause", "resume", "stop", "seek"}
Positions == {0, 1}                  \* start_position of play, position of seek
CastCallers == {"k1"}                \* the call that can wait for a Cast discovery

\* the arguments an operation is called with
ArgsOf(op) == IF op \in {"play", "seek"} THEN Positions ELSE {0}

\* what the library calls of one operation do:
\*   a     the call that carries the operation out ("ok", or "err": it raises)
\*   b     the call that follows it: the seek after a Sonos play, the pause
\*         after a failed AirPlay stop, enqueue=True of an older pychromecast
\*   http  the status of the ESPuino's answer
\*   conn  the discovery: the device is found, is not found, the wait times
\*         out, or the library raises; for Sonos the lookup of the ip
\*   alive the check of a connection kept from an earlier call
Env == [a : {"ok", "err"}, b : {"ok", "err"}, http : {200, 500},
        conn : {"found", "notfound", "timeout", "exception"},
        alive : {"yes", "no", "exception"}]

\* the library calls an operation can reach; the others are held at their
\* first value
Reached(type, op, pc) ==
    IF pc = "finding" THEN IF op = "queue" THEN {"conn", "a", "b"} ELSE {"conn", "a"}
    ELSE IF type = "sonos"
    THEN IF op = "play" THEN {"conn", "a", "b"} ELSE {"conn", "a"}
    ELSE IF type = "espuino"
    THEN IF op \in {"queue", "seek"} THEN {} ELSE IF op = "stop" THEN {"a"} ELSE {"a", "http"}
    ELSE IF type = "airplay"
    THEN IF op \in {"play", "play_list"} THEN {"a", "alive", "conn"}
         ELSE IF op \in {"stop", "pause"} THEN {"a", "b"}
         ELSE IF op = "resume" THEN {"a"} ELSE {}
    ELSE IF type = "chromecast"
    THEN IF op \in {"stop", "seek"} THEN {"a"}
         ELSE IF op = "queue" THEN {"alive", "a", "b"} ELSE {"alive", "a"}
    ELSE {}

EnvOf(type, op, pc) ==
    LET R == Reached(type, op, pc) IN
    {e \in Env : /\ "a" \notin R => e.a = "ok"
                 /\ "b" \notin R => e.b = "ok"
                 /\ "http" \notin R => e.http = 200
                 /\ "conn" \notin R => e.conn = "found"
                 /\ "alive" \notin R => e.alive = "yes"}

Stopped == [st |-> "stopped", pos |-> 0, q |-> 0]
NoCall == [op |-> "none", arg |-> 0, ret |-> "none", err |-> FALSE, contacted |-> FALSE]
NoCastCall == [pc |-> "off", op |-> "none", arg |-> 0, err |-> FALSE]

InitAdapter ==
    /\ target = "none"
    /\ player = Stopped
    /\ airplay_connections = FALSE
    /\ chromecast_connections = FALSE
    /\ chromecast_disabled = FALSE
    /\ chromecast_fail_count = 0
    /\ cast_call = [c \in CastCallers |-> NoCastCall]
    /\ cast_failures = 0
    /\ last = NoCall

\* the value an adapter function hands back, with the state it leaves:
\* ret is "true", "false" or "raised"; err says that a library call raised,
\* timed out or answered with an error status
Outcome(ret, d, err, contacted) == [ret |-> ret, dev |-> d, err |-> err, contacted |-> contacted]

\* the device after the call that carries out op has returned
Played(d, pos) == [d EXCEPT !.st = "playing", !.pos = pos]

\* play_on_sonos, play_playlist_on_sonos, queue_track_on_sonos, pause_sonos,
\* resume_sonos, stop_sonos, seek_sonos behind get_sonos_ip_from_uid
sonos(op, arg, d, e) ==
    IF e.conn = "notfound" THEN Outcome("false", d, FALSE, FALSE)
    ELSE IF e.a = "err" THEN Outcome("false", d, TRUE, TRUE)
    ELSE IF op = "play"
    THEN IF arg > 0
         THEN IF e.b = "ok" THEN Outcome("true", Played(d, arg), FALSE, TRUE)
              ELSE Outcome("true", Played(d, 0), TRUE, TRUE)
         ELSE Outcome("true", Played(d, 0), FALSE, TRUE)
    ELSE IF op = "play_list"
    THEN Outcome("true", [Played(d, 0) EXCEPT !.q = 1], FALSE, TRUE)
    ELSE IF op = "queue" THEN Outcome("true", [d EXCEPT !.q = @ + 1], FALSE, TRUE)
    ELSE IF op = "pause" THEN Outcome("true", [d EXCEPT !.st = "paused"], FALSE, TRUE)
    ELSE IF op = "resume" THEN Outcome("true", [d EXCEPT !.st = "playing"], FALSE, TRUE)
    ELSE IF op = "stop" THEN Outcome("true", [d EXCEPT !.st = "stopped"], FALSE, TRUE)
    ELSE Outcome("true", [d EXCEPT !.pos = arg], FALSE, TRUE)

\* the ESPuino's /cmd?cmd=pauseplay toggles between pause and play
pauseplay(d) ==
    IF d.st = "playing" THEN [d EXCEPT !.st = "paused"]
    ELSE IF d.st = "paused" THEN [d EXCEPT !.st = "playing"]
    ELSE d

\* a pause_espuino that lets the error of the request pass to its caller
pause_espuino_unguarded(d, e) ==
    IF e.a = "err" THEN Outcome("raised", d, TRUE, TRUE)
    ELSE IF e.http = 200 THEN Outcome("true", pauseplay(d), FALSE, TRUE)
    ELSE Outcome("false", d, TRUE, TRUE)

\* pause_espuino; resume_espuino is the same request
pause_espuino(d, e) ==
    IF e.a = "err" THEN Outcome("false", d, TRUE, TRUE)
    ELSE IF e.http = 200 THEN Outcome("true", pauseplay(d), FALSE, TRUE)
    ELSE Outcome("false", d, TRUE, TRUE)

\* play_on_espuino (start_position is not sent), stop_espuino over the
\* WebSocket, pause_espuino, resume_espuino; no queue and no seek
espuino(op, arg, d, e) ==
    IF op \in {"queue", "seek"} THEN Outcome("false", d, FALSE, FALSE)
    ELSE IF op \in {"pause", "resume"} THEN pause_espuino(d, e)
    ELSE IF e.a = "err" THEN Outcome("false", d, TRUE, TRUE)
    ELSE IF op = "stop" THEN Outcome("true", [d EXCEPT !.st = "stopped"], FALSE, TRUE)
    ELSE IF e.http = 200 THEN Outcome("true", Played(d, 0), FALSE, TRUE)
    ELSE Outcome("false", d, TRUE, TRUE)

\* _get_airplay_connection: a kept connection that still answers is reused;
\* otherwise the network is scanned and the device connected
airplay_connection(conn, e) ==
    IF conn /\ e.alive = "yes" THEN [got |-> "yes", conn |-> TRUE, err |-> FALSE]
    ELSE LET kept == conn /\ e.alive = "no" IN
         IF e.conn = "found" THEN [got |-> "yes", conn |-> TRUE, err |-> conn /\ ~kept]
         ELSE IF e.conn = "notfound" THEN [got |-> "no", conn |-> kept, err |-> conn /\ ~kept]
         ELSE [got |-> "raised", conn |-> kept, err |-> TRUE]

\* play_on_airplay, stop_airplay, pause_airplay (a stop), resume_airplay;
\* a playlist plays its first track; no queue and no seek
airplay(op, arg, d, conn, e) ==
    IF op \in {"queue", "seek"}
    THEN [out |-> Outcome("false", d, FALSE, FALSE), conn |-> conn]
    ELSE IF op \in {"play", "play_list"}
    THEN IF e.a = "err"
         THEN [out |-> Outcome("false", d, TRUE, FALSE), conn |-> FALSE]
         ELSE LET c == airplay_connection(conn, e) IN
              IF c.got = "yes"
              THEN [out |-> Outcome("true", Played(d, 0), c.err, TRUE), conn |-> TRUE]
              ELSE IF c.got = "no"
              THEN [out |-> Outcome("false", d, c.err, TRUE), conn |-> c.conn]
              ELSE [out |-> Outcome("false", d, TRUE, TRUE), conn |-> FALSE]
    ELSE IF op \in {"stop", "pause"}
    THEN LET off == [d EXCEPT !.st = "stopped"] IN
         IF ~conn THEN [out |-> Outcome("true", off, FALSE, FALSE), conn |-> FALSE]
         ELSE IF e.a = "ok" THEN [out |-> Outcome("true", off, FALSE, TRUE), conn |-> FALSE]
         ELSE IF e.b = "ok" THEN [out |-> Outcome("true", off, TRUE, TRUE), conn |-> FALSE]
         ELSE [out |-> Outcome("false", off, TRUE, TRUE), conn |-> FALSE]
    ELSE IF ~conn THEN [out |-> Outcome("false", d, FALSE, FALSE), conn |-> conn]
    ELSE IF e.a = "ok"
    THEN [out |-> Outcome("true", [d EXCEPT !.st = "playing"], FALSE, TRUE), conn |-> conn]
    ELSE [out |-> Outcome("false", d, TRUE, TRUE), conn |-> conn]

\* the browser plays by itself: nothing is sent
browser(op, d) ==
    IF op \in {"queue", "seek"} THEN Outcome("false", d, FALSE, FALSE)
    ELSE Outcome("true", d, FALSE, FALSE)

\* stop_chromecast and the Chromecast branch of seek_device: both use a kept
\* connection and make none
chromecast_kept(op, arg, d, conn, e) ==
    IF ~conn THEN Outcome(IF op = "stop" THEN "true" ELSE "false", d, FALSE, FALSE)
    ELSE IF e.a = "err" THEN Outcome("false", d, TRUE, TRUE)
    ELSE IF op = "stop" THEN Outcome("true", [d EXCEPT !.st = "stopped"], FALSE, TRUE)
    ELSE Outcome("true", [d EXCEPT !.pos = arg], FALSE, TRUE)

\* play_on_chromecast, play_playlist_on_chromecast, queue_track_on_chromecast,
\* pause_chromecast, resume_chromecast once the connection is there
chromecast_connected(op, arg, d, e) ==
    IF e.a = "err" THEN Outcome("false", d, TRUE, TRUE)
    ELSE IF op = "play" THEN Outcome("true", Played(d, arg), FALSE, TRUE)
    ELSE IF op = "play_list"
    THEN Outcome("true", [Played(d, 0) EXCEPT !.q = 1], FALSE, TRUE)
    ELSE IF op = "queue"
    THEN IF e.b = "ok" THEN Outcome("true", [d EXCEPT !.q = @ + 1], FALSE, TRUE)
         ELSE Outcome("false", d, TRUE, TRUE)
    ELSE IF op = "pause" THEN Outcome("true", [d EXCEPT !.st = "paused"], FALSE, TRUE)
    ELSE Outcome("true", [d EXCEPT !.st = "playing"], FALSE, TRUE)

\* the caller is handed the result: the operation has returned
Returned(op, arg, o) ==
    [op |-> op, arg |-> arg, ret |-> o.ret, err |-> o.err, contacted |-> o.contacted]

\* a reader is given its playback device (set_reader_device)
Configure(type) ==
    /\ target = "none"
    /\ target' = type
    /\ UNCHANGED <<player, airplay_connections, chromecast_connections, chromecast_disabled,
                   chromecast_fail_count, cast_call, cast_failures, last>>
    /\ UNCHANGED nonAdapterVars

\* play_on_device, play_playlist_on_device, queue_track_on_device, stop_device,
\* pause_device, resume_device, seek_device for a device that needs no Cast
\* connection made
AdapterCall(op, arg) ==
    /\ target \in AdapterTypes
    /\ arg \in ArgsOf(op)
    /\ target = "chromecast" => op \in {"stop", "seek"}
    /\ op = "queue" => player.q < MaxQueue
    /\ \E e \in EnvOf(target, op, "off") :
          LET r == IF target = "airplay" THEN airplay(op, arg, player, airplay_connections, e)
                   ELSE [out |-> IF target = "sonos" THEN sonos(op, arg, player, e)
                                 ELSE IF target = "espuino" THEN espuino(op, arg, player, e)
                                 ELSE IF target = "browser" THEN browser(op, player)
                                 ELSE chromecast_kept(op, arg, player, chromecast_connections, e),
                         conn |-> airplay_connections]
          IN /\ player' = r.out.dev
             /\ airplay_connections' = r.conn
             /\ last' = Returned(op, arg, r.out)
    /\ UNCHANGED <<target, chromecast_connections, chromecast_disabled,
                   chromecast_fail_count, cast_call, cast_failures>>
    /\ UNCHANGED nonAdapterVars

\* _chromecast_fail_count += 1 and the switch that turns the adapter off
CastFailed(count) ==
    /\ chromecast_fail_count' = count + 1
    /\ chromecast_disabled' = (chromecast_disabled \/ count + 1 >= CastFailLimit)

\* the operation goes on with a kept connection that answers, or waits for
\* the discovery
CastConnect(c, op, arg) ==
    \E e \in EnvOf(target, op, "off") :
       IF chromecast_connections /\ e.alive = "yes"
       THEN /\ chromecast_fail_count' = 0
            /\ player' = chromecast_connected(op, arg, player, e).dev
            /\ last' = Returned(op, arg, chromecast_connected(op, arg, player, e))
            /\ UNCHANGED <<chromecast_connections, cast_call>>
       ELSE /\ chromecast_connections' = (chromecast_connections /\ e.alive = "no")
            /\ cast_call' = [cast_call EXCEPT ![c] =
                                [pc |-> "finding", op |-> op, arg |-> arg,
                                 err |-> chromecast_connections /\ e.alive = "exception"]]
            /\ UNCHANGED <<player, chromecast_fail_count, last>>

\* a _get_chromecast_connection that never looks at the switch
CastBeginAlways(c, op, arg) ==
    /\ target = "chromecast"
    /\ op \in {"play", "play_list", "queue", "pause", "resume"}
    /\ arg \in ArgsOf(op)
    /\ cast_call[c].pc = "off"
    /\ op = "queue" => player.q < MaxQueue
    /\ CastConnect(c, op, arg)
    /\ UNCHANGED <<target, airplay_connections, chromecast_disabled, cast_failures>>
    /\ UNCHANGED nonAdapterVars

\* an operation that needs a Cast connection, from its call to the wait for
\* the discovery (or to its return, when the adapter is off or a kept
\* connection answers): _get_chromecast_connection up to asyncio.wait_for
CastBegin(c, op, arg) ==
    /\ target = "chromecast"
    /\ op \in {"play", "play_list", "queue", "pause", "resume"}
    /\ arg \in ArgsOf(op)
    /\ cast_call[c].pc = "off"
    /\ op = "queue" => player.q < MaxQueue
    /\ IF chromecast_disabled
       THEN /\ last' = Returned(op, arg, Outcome("false", player, FALSE, FALSE))
            /\ UNCHANGED <<player, chromecast_connections, chromecast_fail_count, cast_call>>
       ELSE CastConnect(c, op, arg)
    /\ UNCHANGED <<target, airplay_connections, chromecast_disabled, cast_failures>>
    /\ UNCHANGED nonAdapterVars

\* the discovery ends: _get_chromecast_connection from asyncio.wait_for on,
\* then the rest of the operation that asked for the connection
CastEnd(c) ==
    /\ cast_call[c].pc = "finding"
    /\ \E e \in EnvOf(target, cast_call[c].op, "finding") :
          LET op == cast_call[c].op
              arg == cast_call[c].arg
              o == chromecast_connected(op, arg, player, e)
          IN IF e.conn = "found"
             THEN /\ chromecast_connections' = TRUE
                  /\ chromecast_fail_count' = 0
                  /\ player' = o.dev
                  /\ last' = Returned(op, arg, [o EXCEPT !.err = @ \/ cast_call[c].err])
                  /\ UNCHANGED <<chromecast_disabled, cast_failures>>
             ELSE /\ IF e.conn = "exception"
                     THEN UNCHANGED <<chromecast_fail_count, chromecast_disabled>>
                     ELSE CastFailed(chromecast_fail_count)
                  /\ cast_failures' = IF cast_failures < MaxFailures THEN cast_failures + 1
                                      ELSE cast_failures
                  /\ last' = Returned(op, arg,
                                      Outcome("false", player,
                                              e.conn # "notfound" \/ cast_call[c].err, TRUE))
                  /\ UNCHANGED <<player, chromecast_connections>>
    /\ cast_call' = [cast_call EXCEPT ![c] = NoCastCall]
    /\ UNCHANGED <<target, airplay_connections>>
    /\ UNCHANGED nonAdapterVars

\* the server process is started again: the module globals are set anew, the
\* calls under way are gone, the stream pushed to an AirPlay device ends
AdapterRestart ==
    /\ target \in AdapterTypes
    /\ airplay_connections' = FALSE
    /\ chromecast_connections' = FALSE
    /\ chromecast_disabled' = FALSE
    /\ chromecast_fail_count' = 0
    /\ cast_call' = [c \in CastCallers |-> NoCastCall]
    /\ cast_failures' = 0
    /\ player' = IF target = "airplay" THEN [player EXCEPT !.st = "stopped"] ELSE player
    /\ last' = [NoCall EXCEPT !.op = "restart"]
    /\ UNCHANGED target
    /\ UNCHANGED nonAdapterVars

NextAdapter ==
    \/ \E type \in AdapterTypes : Configure(type)
    \/ \E op \in AdapterOps, arg \in Positions : AdapterCall(op, arg)
    \/ \E c \in CastCallers, op \in AdapterOps, arg \in Positions : CastBegin(c, op, arg)
    \/ \E c \in CastCallers : CastEnd(c)
    \/ AdapterRestart

(***************************************************************************)
(* Tag lookup (services/teddycloud.py).  A UID is a string, here the       *)
(* sequence of its characters.  The reader sends what it read from the tag *)
(* and handle_tonie passes it on as it came: a whole UID or the last four  *)
(* bytes of one, with or without colons, in either case.  The tag index    *)
(* is the list of the uids of its tags, the catalog the list of the uid    *)
(* and the model of its tonies; a tag or a tonie without a uid has "".     *)
(***************************************************************************)
MaxTags == 2          \* tags in the tag index of the content server

UidHead == {<<>>,
            <<"E", "0", ":", "0", "4", ":", "0", "3", ":", "5", "0", ":">>,
            <<"E", "0", "0", "4", "0", "3", "5", "1">>}
UidTail == {<<>>,
            <<"8", "0", ":", "4", "B">>,
            <<"1", "3", ":", "1", "6", ":", "8", "0", ":", "4", "B">>,
            <<"1", "3", "1", "6", "8", "0", "4", "b">>,
            <<"1", "3", "1", "6", "8", "0", "4", "C">>,
            <<"1", "3", "-", "1", "6", "-", "8", "0", "-", "4", "B">>}
ScannedUids == {h \o t : h \in UidHead, t \in UidTail}

TagUids == {<<>>,
            <<"E", "0", ":", "0", "4", ":", "0", "3", ":", "5", "0", ":",
              "1", "3", ":", "1", "6", ":", "8", "0", ":", "4", "B">>,
            <<"e", "0", "0", "4", "0", "3", "5", "1", "1", "3", "1", "6", "8", "0", "4", "c">>,
            <<"1", "3", "1", "6", "8", "0", "4", "B">>}
TagIndexes == UNION {[1 .. n -> TagUids] : n \in 0 .. MaxTags}
\* tonies.json: an official tonie has a model number and no uid
Catalogs == {<<>>, <<[uid |-> <<>>, model |-> <<"1", "3", "1", "6", "8", "0", "4", "C">>]>>}

Pending == [from |-> "pending", k |-> 0]
NoLookup == [uid |-> <<>>, tags |-> <<>>, tonies |-> <<>>, result |-> Pending]

\* str.upper(), on the characters a UID holds
upper_char(c) ==
    CASE c = "a" -> "A" [] c = "b" -> "B" [] c = "c" -> "C"
      [] c = "d" -> "D" [] c = "e" -> "E" [] c = "f" -> "F" [] OTHER -> c
upper(s) == [k \in 1 .. Len(s) |-> upper_char(s[k])]

NotColon(c) == c # ":"

\* uid.replace(":", "").upper()
normalized(uid) == upper(SelectSeq(uid, NotColon))

\* a comparison of whole strings in the place of str.endswith
equals(s, suffix) == s = suffix

\* s.endswith(suffix)
endswith(s, suffix) ==
    /\ Len(suffix) <= Len(s)
    /\ SubSeq(s, Len(s) - Len(suffix) + 1, Len(s)) = suffix

\* find_tonie_by_uid: the first tag of the index that matches, failing that the
\* first tonie of the catalog whose uid or model matches, failing that None
find_tonie_by_uid(uid, tags, tonies) ==
    LET normalized_uid == normalized(uid)
        match(x) == normalized(x) = normalized_uid \/ endswith(normalized(x), normalized_uid)
        in_index == {k \in 1 .. Len(tags) : match(tags[k])}
        in_catalog == {k \in 1 .. Len(tonies) : match(tonies[k].uid) \/ match(tonies[k].model)}
        first(S) == CHOOSE k \in S : \A j \in S : k <= j
    IN  IF in_index # {} THEN [from |-> "index", k |-> first(in_index)]
        ELSE IF in_catalog # {} THEN [from |-> "catalog", k |-> first(in_catalog)]
        ELSE [from |-> "none", k |-> 0]

\* a scan arrives with any uid, whatever the content server holds
InitLookup ==
    \E uid \in ScannedUids, tags \in TagIndexes, tonies \in Catalogs :
        lookup = [uid |-> uid, tags |-> tags, tonies |-> tonies, result |-> Pending]

FindTonieByUid ==
    /\ lookup.result = Pending
    /\ lookup' = [lookup EXCEPT !.result = find_tonie_by_uid(lookup.uid, lookup.tags, lookup.tonies)]
    /\ UNCHANGED nonLookupVars

NextLookup == FindTonieByUid

(***************************************************************************)
(* The device a scan is resolved to (handle_tonie, services/devices.py).   *)
(* Readers of any kind, each with or without a persisted device in         *)
(* settings.reader_devices; a device is named by its type.  The endpoint   *)
(* that persists a device takes any strings: "" is a device without type,  *)
(* which get_reader_device_override does not return.                       *)
(***************************************************************************)
OverrideReaders == {"r1", "r2"}
PersistedDevices == {"", "espuino", "sonos", "airplay"}
RequestModes == {"local", "stream", "remote"}     \* mode is any string
RequestTargets == {"none", "sonos", "chromecast"}  \* target_device, "none" when absent

NoScanDevice == [reader |-> "none", mode |-> "none", target_device |-> "none",
                 configured |-> "none", device |-> "none"]

InitOverride ==
    /\ reader_devices = [r \in OverrideReaders |-> "none"]
    /\ scan_device = NoScanDevice

\* get_reader_device_override: the persisted device, if it has a type and an id
get_reader_device_override(reader_ip) ==
    IF reader_devices[reader_ip] \in {"none", ""} THEN "none" ELSE reader_devices[reader_ip]

\* POST /readers/{reader_ip}/device
SetReaderDevice(reader_ip, type) ==
    /\ reader_devices' = [reader_devices EXCEPT ![reader_ip] = type]
    /\ UNCHANGED scan_device
    /\ UNCHANGED nonOverrideVars

\* DELETE /readers/{reader_ip}/device
ClearReaderDevice(reader_ip) ==
    /\ reader_devices[reader_ip] # "none"
    /\ reader_devices' = [reader_devices EXCEPT ![reader_ip] = "none"]
    /\ UNCHANGED scan_device
    /\ UNCHANGED nonOverrideVars

\* POST /tonie with a uid, up to the call of play_tonie_for_reader: the device
\* the scan is resolved to, reader_device = device_override or
\* get_device_for_reader(reader_ip).  What the scan does with the device is the
\* reader state machine.
ResolveScanDevice(reader_ip, mode, target_device) ==
    /\ LET reader_configured_device == get_reader_device_override(reader_ip)
           override == device_override(mode, target_device, reader_configured_device)
       IN  scan_device' = [reader |-> reader_ip, mode |-> mode,
                           target_device |-> target_device,
                           configured |-> reader_configured_device,
                           device |-> IF override # "none" THEN override
                                      ELSE get_device_for_reader]
    /\ UNCHANGED reader_devices
    /\ UNCHANGED nonOverrideVars

NextOverride ==
    \/ \E r \in OverrideReaders, type \in PersistedDevices : SetReaderDevice(r, type)
    \/ \E r \in OverrideReaders : ClearReaderDevice(r)
    \/ \E r \in OverrideReaders, mode \in RequestModes, t \in RequestTargets :
           ResolveScanDevice(r, mode, t)

(***************************************************************************)
(* The encoding status and the clock (services/transcoding.py): the status *)
(* record of one album, the encode_tonie_tracks run that writes it, and    *)
(* the status polls.  Time is counted in seconds and passes in steps of    *)
(* the transcoder timeout; a transcoder run is cut off at that timeout, so *)
(* at most one step passes while a track is encoded.                       *)
(***************************************************************************)
MaxTicks == 9         \* steps of time after which the clock stops being counted
StatusTracks == 7     \* tracks of the album

NoStatusInfo == [status |-> "none", started_at |-> 0, updated |-> 0]
IdleEncoder == [pc |-> "off", i |-> 0, start_time |-> 0, waited |-> FALSE]

InitStatus ==
    /\ now = TrackTimeout
    /\ status_info = NoStatusInfo
    /\ encoder = IdleEncoder
    /\ polled = "none"

\* set_encoding_status: started_at is the keyword argument, time.time() without
\* one; updated (history) is the time of the call
set_encoding_status(status, started_at) ==
    [status |-> status, started_at |-> started_at, updated |-> now]

\* encode_tonie_tracks begins: start_time is taken, the status is set, the loop
\* publishes the progress of track 0 and awaits the transcoder
EncodeStart ==
    /\ encoder.pc = "off"
    /\ encoder' = [pc |-> "encoding", i |-> 0, start_time |-> now, waited |-> FALSE]
    /\ status_info' = set_encoding_status("encoding", now)
    /\ UNCHANGED <<now, polled>>
    /\ UNCHANGED nonStatusVars

\* the transcoder returns for track i: on failure the status is an error and the
\* run ends; otherwise the loop publishes the progress of the next track and
\* awaits the transcoder, or after the last track writes metadata.json, sets
\* "ready" and sleeps
TrackEncoded(success) ==
    /\ encoder.pc = "encoding"
    /\ IF ~success
       THEN /\ status_info' = set_encoding_status("error", now)
            /\ encoder' = IdleEncoder
       ELSE IF encoder.i + 1 < StatusTracks
       THEN /\ status_info' = set_encoding_status("encoding", encoder.start_time)
            /\ encoder' = [encoder EXCEPT !.i = @ + 1, !.waited = FALSE]
       ELSE /\ status_info' = set_encoding_status("ready", now)
            /\ encoder' = [encoder EXCEPT !.pc = "ready"]
    /\ UNCHANGED <<now, polled>>
    /\ UNCHANGED nonStatusVars

\* asyncio.sleep(1) returns: clear_encoding_status
StatusCleared ==
    /\ encoder.pc = "ready"
    /\ status_info' = NoStatusInfo
    /\ encoder' = [encoder EXCEPT !.pc = "cached"]
    /\ UNCHANGED <<now, polled>>
    /\ UNCHANGED nonStatusVars

\* get_encoding_status: "cached" once metadata.json exists; the record, and for
\* an encoding older than StallSeconds an error while the record is deleted;
\* "unknown" or "partial" without a record
GetEncodingStatus ==
    /\ IF encoder.pc \in {"ready", "cached"}
       THEN polled' = "cached" /\ UNCHANGED status_info
       ELSE IF status_info.status # "none"
       THEN IF /\ status_info.started_at # 0
               /\ status_info.status = "encoding"
               /\ now - status_info.started_at > StallSeconds
            THEN polled' = "timed out" /\ status_info' = NoStatusInfo
            ELSE polled' = status_info.status /\ UNCHANGED status_info
       ELSE polled' = "unknown" /\ UNCHANGED status_info
    /\ UNCHANGED <<now, encoder>>
    /\ UNCHANGED nonStatusVars

\* time passes; a track that has been encoding for TrackTimeout is cut off first
TimePasses ==
    /\ now < MaxTicks * TrackTimeout
    /\ ~(encoder.pc = "encoding" /\ encoder.waited)
    /\ now' = now + TrackTimeout
    /\ encoder' = IF encoder.pc = "encoding" THEN [encoder EXCEPT !.waited = TRUE] ELSE encoder
    /\ UNCHANGED <<status_info, polled>>
    /\ UNCHANGED nonStatusVars

NextStatus ==
    \/ EncodeStart
    \/ \E success \in BOOLEAN : TrackEncoded(success)
    \/ StatusCleared
    \/ GetEncodingStatus
    \/ TimePasses

(***************************************************************************)
(* encode_track_to_mp3 and the files it touches (services/transcoding.py). *)
(* The transcoder writes to a file made by tempfile.mkstemp in the         *)
(* system's temp directory; shutil.move then takes it to NN.mp3 in the     *)
(* fingerprint directory under CONFIG_DIR.  shutil.move renames when both  *)
(* directories are on one file system and copies, then deletes, when they  *)
(* are not; which it is depends on where CONFIG_DIR is mounted.  A rename  *)
(* that fails leaves the destination alone, a copy that fails (disk full,  *)
(* I/O error) leaves what it had written.  encode_tonie_tracks encodes     *)
(* every track anew, whether or not its file exists.                       *)
(***************************************************************************)
IoTracks == 3         \* track files of the album

TrackPaths == 0 .. (IoTracks - 1)
MoveOutcomes == {"renamed", "rename failed", "copied", "copy failed"}

InitIo ==
    track_io = [pc |-> "off", i |-> 0, temp |-> "absent", ret |-> "none",
                out |-> [t \in TrackPaths |-> "absent"]]

\* encode_track_to_mp3 up to the await of the transcoder: mkstemp has made an
\* empty temp file
TrackEncodeBegin(i) ==
    /\ track_io.pc = "off"
    /\ track_io' = [track_io EXCEPT !.pc = "ffmpeg", !.i = i, !.temp = "empty",
                                    !.ret = "none"]
    /\ UNCHANGED nonIoVars

\* the transcoder writes its output to the temp file
TranscoderWrites ==
    /\ track_io.pc = "ffmpeg"
    /\ track_io.temp = "empty"
    /\ track_io' = [track_io EXCEPT !.temp = "partial"]
    /\ UNCHANGED nonIoVars

\* shutil.move(temp_path, output_path): the destination afterwards
shutil_move(dst, outcome) ==
    IF outcome \in {"renamed", "copied"} THEN "whole"
    ELSE IF outcome = "copy failed" THEN "partial"
    ELSE dst

\* asyncio.wait_for returns or raises: a non-zero exit, the timeout and any
\* exception delete the temp file and return False; exit 0 moves the temp file
\* to the track file
TranscoderEnds(how, outcome) ==
    /\ track_io.pc = "ffmpeg"
    /\ IF how = "exit 0"
       THEN track_io' = [track_io EXCEPT
                            !.pc = "off",
                            !.temp = "absent",
                            !.out[track_io.i] = shutil_move(@, outcome),
                            !.ret = IF outcome \in {"renamed", "copied"} THEN "true"
                                    ELSE "false"]
       ELSE track_io' = [track_io EXCEPT !.pc = "off", !.temp = "absent", !.ret = "false"]
    /\ UNCHANGED nonIoVars

NextIo ==
    \/ \E i \in TrackPaths : TrackEncodeBegin(i)
    \/ TranscoderWrites
    \/ \E how \in {"exit 0", "exit 1", "timeout"}, outcome \in MoveOutcomes :
           TranscoderEnds(how, outcome)

(***************************************************************************)
(* upload_to_espuino: the retry loop and the watchdog of one file upload   *)
(***************************************************************************)
MaxClock == 30        \* seconds the clock of the upload runs
MaxDirSeconds == 2    \* seconds ensure_dir takes at most

max_retries == 3
stale_threshold == 10
WatchdogPeriod == 1
BackoffBase == 5

Cancelled == "Cancelled by user"
Stalled == "Stalled: no progress for 10s"

\* delay = 5 * (2 ** (attempt - 1))
backoff_delay(attempt) == BackoffBase * (2 ^ (attempt - 1))

InitXfer ==
    xfer = [pc |-> "off", attempt |-> 0, now |-> 0, start_time |-> 0,
            last_progress_time |-> 0, wake |-> 0, cancel |-> FALSE,
            delays |-> <<>>, ret |-> "none",
            \* read by no action: when the flag was set, when the POST began,
            \* whether on_progress ran in this attempt, when the task was cancelled
            cancel_at |-> 0, post_start |-> 0, sent |-> FALSE, aborted_at |-> 0]

\* return {"success": False, "error": error}, or success
Return(x, ret) == [x EXCEPT !.pc = "returned", !.ret = ret]

\* the task is cancelled: the CancelledError handler names the reason
Abort(x) ==
    [Return(x, IF x.cancel THEN Cancelled ELSE Stalled) EXCEPT !.aborted_at = x.now]

\* the head of the retry loop with attempt = x.attempt, up to its next suspension
AttemptBegin(x) ==
    IF x.attempt >= max_retries THEN Return(x, "failed")
    ELSE IF x.cancel THEN Return(x, Cancelled)
    ELSE IF x.attempt > 0
    THEN [x EXCEPT !.pc = "backoff", !.wake = x.now + backoff_delay(x.attempt)]
    ELSE [x EXCEPT !.pc = "posting", !.wake = x.now + WatchdogPeriod,
                   !.post_start = x.now, !.sent = FALSE]

\* upload_to_espuino is called
UploadToEspuino ==
    /\ xfer.pc = "off"
    /\ xfer' = IF xfer.cancel
               THEN Return(xfer, Cancelled)
               ELSE [xfer EXCEPT !.pc = "ensure_dir", !.start_time = xfer.now,
                                 !.last_progress_time = xfer.now]
    /\ UNCHANGED nonXferVars

\* ensure_dir returns and the retry loop begins
EnsureDirDone ==
    /\ xfer.pc = "ensure_dir"
    /\ xfer' = AttemptBegin(xfer)
    /\ UNCHANGED nonXferVars

\* asyncio.sleep(delay) ends: the watchdog is created and the POST begins
BackoffDone ==
    /\ xfer.pc = "backoff"
    /\ xfer.now = xfer.wake
    /\ xfer' = [xfer EXCEPT !.pc = "posting", !.wake = xfer.now + WatchdogPeriod,
                            !.delays = Append(@, backoff_delay(xfer.attempt)),
                            !.post_start = xfer.now, !.sent = FALSE]
    /\ UNCHANGED nonXferVars

\* on_progress: the reader of the file reports bytes read
on_progress ==
    /\ xfer.pc = "posting"
    /\ LET x == [xfer EXCEPT !.last_progress_time = xfer.now, !.sent = TRUE]
       IN  xfer' = IF x.cancel THEN Abort(x) ELSE x
    /\ UNCHANGED nonXferVars

\* a watchdog that never finds the upload stalled
stalled_never(time, last_progress_time) == FALSE

\* time.time() - last_progress_time > stale_threshold
stalled(time, last_progress_time) == time - last_progress_time > stale_threshold

\* watchdog: asyncio.sleep(1) ends
watchdog ==
    /\ xfer.pc = "posting"
    /\ xfer.now = xfer.wake
    /\ xfer' = IF xfer.cancel \/ stalled(xfer.now, xfer.last_progress_time)
               THEN Abort(xfer)
               ELSE [xfer EXCEPT !.wake = xfer.now + WatchdogPeriod]
    /\ UNCHANGED nonXferVars

\* session.post ends: status 200, or another status, a timeout or an exception
PostDone(ok) ==
    /\ xfer.pc = "posting"
    /\ xfer' = IF ok
               THEN Return(xfer, "success")
               ELSE AttemptBegin([xfer EXCEPT !.attempt = @ + 1])
    /\ UNCHANGED nonXferVars

\* cancel_uploads_for_device puts the device into _upload_cancel
SetCancel ==
    /\ xfer.pc # "returned"
    /\ ~xfer.cancel
    /\ xfer' = [xfer EXCEPT !.cancel = TRUE, !.cancel_at = xfer.now]
    /\ UNCHANGED nonXferVars

\* a second passes; a sleep that is over ends before the next second does
XferTick ==
    /\ xfer.pc \in {"ensure_dir", "backoff", "posting"}
    /\ xfer.now < MaxClock
    /\ xfer.pc \in {"backoff", "posting"} => xfer.now < xfer.wake
    /\ xfer.pc = "ensure_dir" => xfer.now - xfer.start_time < MaxDirSeconds
    /\ xfer' = [xfer EXCEPT !.now = @ + 1]
    /\ UNCHANGED nonXferVars

NextXfer ==
    \/ UploadToEspuino
    \/ EnsureDirDone
    \/ BackoffDone
    \/ on_progress
    \/ watchdog
    \/ \E ok \in BOOLEAN : PostDone(ok)
    \/ SetCancel
    \/ XferTick

(***************************************************************************)
(* Specifications                                                          *)
(***************************************************************************)
Init == InitEnc /\ InitReader /\ InitUpload /\ InitStreams /\ InitAdapter /\ lookup = NoLookup
        /\ InitOverride /\ InitStatus /\ InitIo /\ InitXfer

SpecEnc == Init /\ [][NextEnc]_vars

SpecReader == Init /\ [][NextReader]_vars

SpecUpload == Init /\ [][NextUpload]_vars

SpecStreams == Init /\ [][NextStreams]_vars

SpecAdapter == Init /\ [][NextAdapter]_vars

\* a scan is waiting for its lookup
InitScanned == InitEnc /\ InitReader /\ InitUpload /\ InitStreams /\ InitAdapter /\ InitLookup
               /\ InitOverride /\ InitStatus /\ InitIo /\ InitXfer

SpecLookup == InitScanned /\ [][NextLookup]_vars

SpecOverride == Init /\ [][NextOverride]_vars

SpecStatus == Init /\ [][NextStatus]_vars

SpecIo == Init /\ [][NextIo]_vars

SpecXfer == Init /\ [][NextXfer]_vars

(***************************************************************************)
(* Properties of the encoding coordinator and the cache store              *)
(***************************************************************************)
\* the transcoder runs that are in flight: <<job, fingerprint, track index>>
Transcoding ==
    {<<j, job[j].fp, 0>> : j \in {x \in Jobs : job[x].pc = "ef_encoding"}}
    \cup {<<j, job[j].fp, job[j].i>> : j \in {x \in Jobs : job[x].pc = "all_encoding"}}
    \cup {<<j, job[j].fp, job[j].i>> : j \in {x \in Jobs : job[x].rpc = "cr_encoding"}}

\* the jobs that hold an encoding lock of fp
LockHolders(fp) ==
    {j \in Jobs : \E k \in {FirstKey(fp), RemainingKey(fp)} :
                      lockq[k] # <<>> /\ Head(lockq[k]) = j}

\* C1: whenever metadata.json exists in a fingerprint directory, every track
\* file the metadata references exists in that directory (and is non-empty).
C1_MetadataImpliesTracks ==
    \A fp \in FP :
        meta[fp].exists =>
            \A k \in 1 .. Len(meta[fp].tracks) : meta[fp].tracks[k] \in files[fp]

\* C2: at any instant at most one invocation of encode_first_track,
\* continue_encoding_remaining_tracks or encode_tonie_tracks is encoding
\* tracks of a given fingerprint.
C2_OneEncoderPerFingerprint ==
    \A fp \in FP : Cardinality({t \in Transcoding : t[2] = fp}) <= 1

\* C6: a step that evicts a fingerprint directory (its track files vanish)
\* never happens while another task holds an encoding lock of that fingerprint.
C6_NoEvictionUnderLock ==
    [][\A fp \in FP :
          (files[fp] # {} /\ files'[fp] = {}) =>
              \A j \in LockHolders(fp) : job'[j] # job[j]]_vars

\* C7: among concurrent requests for one fingerprint the transcoder is never
\* running twice for the same track index: a second requester does not encode
\* a track that another requester is encoding.
C7_TranscoderOncePerTrack ==
    \A t1, t2 \in Transcoding : (t1[2] = t2[2] /\ t1[3] = t2[3]) => t1 = t2

\* C8: track N+1 of an album is on the device queue only after track N of
\* that album was put on it, where the track before a queued track is the
\* nearest earlier track of the album that is not empty.
C8_QueueInTrackOrder ==
    \A d \in QueueDevices : \A k \in 1 .. Len(queue[d]) :
        LET fp == queue[d][k][1]
            earlier == {j \in 0 .. (queue[d][k][2] - 1) : Duration(fp, j) > 0}
        IN  earlier # {} =>
                \E h \in 1 .. (k - 1) :
                    /\ queue[d][h][1] = fp
                    /\ queue[d][h][2] \in earlier
                    /\ \A j \in earlier : j <= queue[d][h][2]

(***************************************************************************)
(* Properties of the reader state machine                                  *)
(***************************************************************************)
\* the scan handlers suspended between reading the reader state and writing the
\* transition: awaiting resume_device, stop_device or find_tonie_by_uid
MidTransition == {h \in Handlers : hd[h].pc \in {"s_resume", "s_stop", "s_find"}}

\* C4: transitions of the reader are serialized: a scan never reads the reader
\* state while an earlier scan of the reader is suspended in the middle of its
\* transition, so what it observes is the state the earlier scan leaves behind.
C4_ScansSerialized ==
    [][(\E uid \in Tags, mode \in Modes : Scan(uid, mode)) => MidTransition = {}]_vars

\* C5: whenever no request is in flight and the resume record of the reader
\* has paused = true, the current_tag of the reader is set.
C5_PausedImpliesCurrentTag ==
    (Quiet /\ rs.resume.paused) => rs.current_tag.uid # "none"

\* C9: when the tag returns after its removal (the second scan of the round
\* trip scan(u), removal, scan(u): the same request as the first, no other
\* request in flight, the device silenced by the removal), the scan ends with
\* the device playing again and reports playback as started.  The position
\* itself is left out: the device keeps it, within its own precision.
C9_RoundTripResumes ==
    [][\A h \in Handlers :
          (/\ ScanResumeDone(h)
           /\ FreeHandlers = Handlers \ {h}
           /\ hd[h].override = hd[h].device
           /\ devs[hd[h].device].st # "playing")
          => /\ devs'[hd[h].device].st = "playing"
             /\ resp'.playback_started]_vars

\* C10: a scan of the uid that is playing (current tag, not paused, its device
\* playing, no other request in flight) is a no-op: it answers with the uid
\* and the playback_url of the current tag (never null), starts no handler
\* that calls the device, and leaves the reader state and the devices as they
\* are.
C10_SameTagScanIsNoOp ==
    [][\A uid \in Tags, mode \in Modes :
          (/\ Scan(uid, mode)
           /\ Quiet
           /\ rs.current_tag.uid = uid
           /\ rs.current_device # "none"
           /\ devs[rs.current_device].st = "playing"
           /\ ~(rs.resume.uid = uid /\ rs.resume.paused))
          => /\ rs' = rs
             /\ devs' = devs
             /\ hd' = hd
             /\ resp'.uid = uid
             /\ resp'.found
             /\ resp'.playback_url = rs.current_tag.playback_url
             /\ resp'.playback_url # "none"]_vars

(***************************************************************************)
(* Properties of the SD-mirror upload engine                               *)
(***************************************************************************)
\* the upload runs of device ip that are inside upload_to_espuino, a file
\* transfer to the device in progress
Uploading(ip) == {u \in Runs : run[u].ip = ip /\ run[u].pc \in {"xfer_dir", "xfer_post"}}

\* C3: at any instant at most one upload run (the upload task of a scan, a
\* resume started by a heartbeat, a retry of the retry endpoint) is
\* transferring files to a given device.
C3_OneUploadPerDevice ==
    \A ip \in EspIps : Cardinality(Uploading(ip)) <= 1

\* C11: a scan whose tag the content source does not resolve is answered with
\* found = false and leaves current_tag, the position fields, the resume record
\* and current_device of the reader as they were
C11_UnresolvedScanKeepsState ==
    [][\A h \in Handlers :
         (ScanFindDone(h) /\ hd[h].uid \in Unresolved)
         => /\ ~resp'.found
            /\ rs'.current_tag = rs.current_tag
            /\ rs'.started = rs.started
            /\ rs'.current_offset = rs.current_offset
            /\ rs'.resume = rs.resume
            /\ rs'.current_device = rs.current_device]_vars

\* the verifications an upload run awaits
Verifies(u) == SdVerify0Done(u) \/ SdVerify1Done(u) \/ RpVerify0Done(u) \/ RpVerify1Done(u)

\* C12: whenever a verification reports complete, every indexed track file is on
\* the card with its full size and the UID map file is on the card; a card whose
\* only anomaly is a missing UID map is not reported complete
C12_CompleteImpliesTracksAndUidMap ==
    [][\A u \in Runs :
         (Verifies(u) /\ verify_espuino_upload(sd[run[u].ip]).complete)
         => /\ \A t \in TrackFiles : sd[run[u].ip][t] = "ok"
            /\ sd[run[u].ip][MapFile] = "ok"]_vars


\* C13: after a cancel that removed the intent of a device from the persistent
\* queue, a task that existed at the cancel neither puts the intent back into
\* the queue nor starts another transfer
C13_CancelSuppressesIntent ==
    [][\A u \in Runs :
         (run[u].before_cancel /\ run'[u] # run[u])
         => /\ pending_uploads'[run[u].ip] => pending_uploads[run[u].ip]
            /\ run'[u].pc # "xfer_dir"]_vars


\* C14: a queued intent leaves the persistent queue only by a user cancel or when
\* the album is complete on the card (every track file whole, the UID map
\* there): an upload run that removes the intent leaves no failed or missing
\* file of them behind
C14_IntentStaysUntilComplete ==
    [][\A ip \in EspIps :
         (pending_uploads[ip] /\ ~pending_uploads'[ip] /\ ~DeletePendingUpload(ip))
         => \A f \in TrackFiles \cup {MapFile} : sd'[ip][f] = "ok"]_vars


\* C15: with an upload intent present for a device, a process restart and a
\* heartbeat of the device each create a resume of that intent
C15_RestartAndHeartbeatResume ==
    [][\A ip \in EspIps :
         (pending_uploads[ip] /\ (reader_heartbeat(ip) \/ \E cut \in BOOLEAN : Restart(cut)))
         => \E u \in Runs : /\ run'[u].kind = "resume"
                            /\ run'[u].ip = ip
                            /\ run'[u].pc = "start"]_vars


(***************************************************************************)
(* Properties of the stream listing                                        *)
(***************************************************************************)
\* the readers whose ip matches manual-stream, browser-session or web-*
VirtualIps == {ip \in ReaderIps : ip[1] \in {"manual-stream", "browser-session", "web-"}}

\* the readers listed once the iteration under way has ended
ListedNext == IF listing'.todo = <<>> THEN streams' ELSE listing'.out

\* C16: when get_streams visits a reader with a current tag, the stream of a
\* non-virtual reader on an SD-player device is cleared and left out of the list
\* if its last_seen is older than 180 s and is listed with current_tag set up to
\* that cutoff; the stream of a virtual reader is never cleared
C16_StaleStreamReaper ==
    [][ListStep =>
         LET ip == Head(listing.todo)
             sd_player == /\ ip \notin VirtualIps
                          /\ reader_states[ip].current_device = "espuino"
                          /\ connected_readers[ip].known
         IN reader_states[ip].current_tag =>
              /\ (sd_player /\ connected_readers[ip].last_seen > 180)
                 => (~reader_states'[ip].current_tag /\ ip \notin ListedNext)
              /\ (sd_player /\ connected_readers[ip].last_seen <= 180)
                 => (reader_states'[ip].current_tag /\ ip \in ListedNext)
              /\ ip \in VirtualIps
                 => (reader_states'[ip].current_tag /\ ip \in ListedNext)]_vars

\* a listing has ended that cleared the stale stream of a physical reader and
\* listed the stream, as old, of a virtual reader on an ESPuino
C16_Witness ==
    /\ listing.todo = <<>>
    /\ \E ip \in ReaderIps \ VirtualIps :
          /\ ~reader_states[ip].current_tag
          /\ reader_states[ip].current_device = "espuino"
          /\ connected_readers[ip].last_seen > 180
          /\ ip \notin streams
    /\ \E ip \in VirtualIps :
          /\ reader_states[ip].current_tag
          /\ reader_states[ip].current_device = "espuino"
          /\ connected_readers[ip].known
          /\ connected_readers[ip].last_seen > 180
          /\ ip \in streams


\* C17: once the upload task that a cancel met has ended, with the intent gone
\* and an incomplete track file left on the card, the next scan of the tag on
\* the reachable device starts the upload task that queues the intent again,
\* deletes the incomplete file and uploads it anew
C17_ScanAfterCancelReuploads ==
    [][\A u \in Runs :
         (/\ run[u].before_cancel
          /\ run[u].ip \in upload_cancel'
          /\ \A v \in Runs : run'[v].kind = "idle"
          /\ ~pending_uploads'[run[u].ip]
          /\ \E t \in TrackFiles : sd'[run[u].ip][t] = "partial")
         => ~check_espuino_sd_ready(sd'[run[u].ip], TRUE)]_vars

\* C18: the status of a fingerprint is recorded or reported as cached only when
\* its metadata.json exists
C18_CachedOnlyWithMetadata ==
    \A fp \in FP :
       (encStatus[fp] = "cached" \/ get_encoding_status(fp) = "cached") => meta[fp].exists


\* C19: in every metadata.json the encoder has written, the track at list
\* position k (counted from 0) carries index k: the indices of an album are
\* contiguous from 0, whatever track list the encoder was given.
C19_MetadataIndicesContiguous ==
    \A fp \in FP :
        meta[fp].exists =>
            \A k \in 1 .. Len(meta[fp].tracks) : meta[fp].tracks[k] = k - 1


\* the postcondition of ensure_cache_space(needed): the occupancy left plus
\* the bytes asked for fit the configured maximum, or no directory holding mp3
\* files is left to evict
RoomFor(fs, order, needed) ==
    \/ get_cache_size(fs) + needed <= MaxCacheMb
    \/ order = <<>>

\* C20: when ensure_cache_space(n) returns, the cache occupancy plus n is at
\* most the configured maximum, unless no evictable directory remains.  The
\* steps that run it are the one entering the transcoder of the first track
\* (n the estimate of the first track) and the one leaving the start of
\* encode_tonie_tracks without metadata.json (n the estimate of the album).
C20_EnsureCacheSpaceMakesRoom ==
    [][\A j \in Jobs :
          /\ (job[j].pc # "ef_encoding" /\ job'[j].pc = "ef_encoding")
                => RoomFor(files', lru', EstimateFirst(job'[j].fp))
          /\ (/\ job[j].pc \in {"all_start", "all_lockwait"}
              /\ job'[j].pc \notin {"all_start", "all_lockwait"}
              /\ ~meta[job[j].fp].exists)
                => RoomFor(files', lru', EstimateAll(job[j].fp))]_vars

\* an encoder of the first track has been given room by evicting the directory
\* of the other album, which had been encoded before, and the eviction stopped
\* there: the directory of its own album, the newer one, still holds a track
C20_Witness ==
    \E j \in Jobs : \E fp \in FP :
        /\ job[j].pc = "ef_encoding"
        /\ files[job[j].fp] # {}
        /\ lru = <<job[j].fp>>
        /\ fp # job[j].fp
        /\ fp \notin dirs
        /\ encStatus[fp] # "none"
        /\ get_cache_size(files) + EstimateFirst(job[j].fp) = MaxCacheMb


CastOps == {"play", "play_list", "queue", "pause", "resume"}

\* C22: once the Cast adapter has failed 3 times it is disabled: every later
\* connection attempt fails without contacting a device, and nothing but a
\* restart of the process enables the adapter again.  This is the first part:
\* three failed connection attempts leave the adapter disabled.
C22_ThreeFailuresDisable ==
    cast_failures >= CastFailLimit => chromecast_disabled

\* C22 as amended: once three Cast connection attempts in a row have failed
\* by timing out or by not finding the device (a connection made or reused in
\* between sets the count back to 0, an attempt that ends with another
\* exception is not counted), the adapter is disabled: every later connection
\* attempt fails without contacting a device, and nothing but a restart of
\* the process enables the adapter again.
C22_DisabledUntilRestart ==
    [][/\ chromecast_fail_count' >= CastFailLimit => chromecast_disabled'
       /\ (chromecast_disabled /\ last'.op # "restart") =>
             /\ chromecast_disabled'
             /\ (cast_call' = cast_call /\ last' # last /\ last'.op \in CastOps) =>
                   /\ last'.ret = "false"
                   /\ ~last'.contacted
                   /\ player' = player
                   /\ chromecast_connections' = chromecast_connections]_vars

\* the adapter is disabled and an operation that asked for a connection after
\* that was handed false without any device being contacted
C22_Witness ==
    /\ chromecast_disabled
    /\ chromecast_fail_count >= CastFailLimit
    /\ last.op \in CastOps
    /\ last.ret = "false"
    /\ ~last.contacted


\* C23: an adapter operation called again with the same argument on the same
\* device, both calls succeeding without an error, leaves the device in the
\* state the first call left it in.  The operations that set the transport
\* state are looked at (pause after pause is the case the claim names); queue,
\* which appends a track at every call, is left aside.
C23_RepeatIsIdempotent ==
    [][(/\ last'.op \in AdapterOps \ {"queue"}
        /\ last'.op = last.op
        /\ last'.arg = last.arg
        /\ last.ret = "true" /\ ~last.err
        /\ last'.ret = "true" /\ ~last'.err) => player' = player]_vars


\* C24: a scan for an ESPuino is answered by playing from the SD folder, and
\* not by streaming, exactly when the verification of the album folder reports
\* complete.  The scan plays from the folder when check_espuino_sd_ready, whose
\* listing arrives, says ready; it can arrive in any state of the card.
C24_SdPlaybackIffVerified ==
    \A ip \in EspIps :
        check_espuino_sd_ready(sd[ip], TRUE) <=> verify_espuino_upload(sd[ip]).complete


(***************************************************************************)
(* Properties of the tag lookup                                            *)
(***************************************************************************)
HexChars == {"0", "1", "2", "3", "4", "5", "6", "7", "8", "9", "A", "B", "C", "D", "E", "F"}

\* the last n characters of s, all of s when it has fewer
LastChars(s, n) == IF Len(s) <= n THEN s ELSE SubSeq(s, Len(s) - n + 1, Len(s))

\* the hex characters of a UID, colons (and whatever else separates them)
\* stripped, case folded
HexOf(uid) == LET IsHex(c) == c \in HexChars IN SelectSeq(upper(uid), IsHex)

\* the last 8 hex characters of two UIDs match
Last8Match(a, b) ==
    /\ Len(HexOf(a)) >= 8
    /\ Len(HexOf(b)) >= 8
    /\ LastChars(HexOf(a), 8) = LastChars(HexOf(b), 8)

\* C25: the lookup of a scanned UID succeeds if and only if its last 8 hex
\* characters match those of the UID of a tag of the index, compared without
\* regard to case and with the colons stripped.
C25_LookupIffLast8Match ==
    lookup.result # Pending =>
        (lookup.result.from # "none"
            <=> \E k \in 1 .. Len(lookup.tags) : Last8Match(lookup.uid, lookup.tags[k]))

\* C25 (amended): the lookup returns a tag of the index if and only if the
\* scanned UID, colons stripped and case ignored, is the end of the UID of a
\* tag of the index treated the same way, and it returns the first such tag;
\* when the scanned UID is 8 hex characters, colons apart, that is if and only
\* if they are the last 8 characters of the tag's UID.  A UID that no tag of
\* the index ends with is looked up in the catalog by the same rule, on the
\* uid and the model of a tonie.
C25_ScannedIsSuffixOfIndexed ==
    LET strip(x) == upper(SelectSeq(x, NotColon))
        scanned == strip(lookup.uid)
        ends(x) == Len(scanned) <= Len(strip(x)) /\ LastChars(strip(x), Len(scanned)) = scanned
        hits == {k \in 1 .. Len(lookup.tags) : ends(lookup.tags[k])}
        tail8 == {k \in 1 .. Len(lookup.tags) : LastChars(strip(lookup.tags[k]), 8) = scanned}
        other == {k \in 1 .. Len(lookup.tonies) :
                      ends(lookup.tonies[k].uid) \/ ends(lookup.tonies[k].model)}
    IN  lookup.result # Pending =>
            /\ lookup.result.from = "index" <=> hits # {}
            /\ lookup.result.from = "index" =>
                   /\ lookup.result.k \in hits
                   /\ \A j \in hits : lookup.result.k <= j
            /\ (Len(scanned) = 8 /\ HexOf(scanned) = scanned) => hits = tail8
            /\ lookup.result.from = "catalog" <=> (hits = {} /\ other # {})

\* a UID of four bytes in lower case finds the second tag of the index, whose
\* UID has eight bytes, colons and upper case
C25_Witness ==
    /\ lookup.result = [from |-> "index", k |-> 2]
    /\ lookup.uid = <<"1", "3", "1", "6", "8", "0", "4", "b">>
    /\ Len(lookup.tags[2]) = 23


(***************************************************************************)
(* Properties of the tag's return, of the stop and of the device override  *)
(***************************************************************************)
\* C26: when a tag returns while its playback is paused (a scan of the uid of
\* the resume record, which is marked paused), the device is asked to resume,
\* and if that call fails the playback is restarted on the device from
\* resume.position.  The scan that found the tag still current waits in
\* "s_resume" for resume_device; when it returns without success the device is
\* left as a play from resume.position leaves it.
C26_FailedResumeRestarts ==
    [][\A h \in Handlers :
          (/\ hd[h].pc = "s_resume"
           /\ hd'[h].pc = "off"
           /\ ~resume_result(hd[h].device, devs[hd[h].device]))
          => devs'[hd[h].device]
                 = play_on_device(hd[h].device, devs[hd[h].device], rs.resume.position)]_vars


\* C27: a scan of tag T for device D, no tag being current, starts the playback
\* at resume.position only if the resume record is of T, is marked paused and
\* names D; in every other case the playback starts at position 0.  The scan
\* leaves "s_find" for "s_play" with the start position it hands to the device.
C27_ResumePositionOnlyWhenPaused ==
    [][\A h \in Handlers :
          (hd[h].pc = "s_find" /\ hd'[h].pc = "s_play")
          => hd'[h].position
                 = IF /\ rs.resume.uid = hd[h].uid
                      /\ rs.resume.paused
                      /\ rs.resume.device = hd[h].override
                   THEN rs.resume.position
                   ELSE 0]_vars


\* C28: an explicit stop of a reader (control action stop, or the reader's stop
\* endpoint) clears current_tag and all the position state (current_started_at,
\* current_offset, last_reported_position) and calls stop on the device.  When
\* the handler of either stop has returned, no tag is current, no start time is
\* set, the offset is 0 and the device the handler addressed is stopped.
C28_StopClearsPositionState ==
    [][\A h \in Handlers :
          (hd[h].pc \in {"c_stop", "p_stop"} /\ hd'[h].pc = "off")
          => /\ rs'.current_tag = NoTag
             /\ ~rs'.started
             /\ rs'.current_offset = 0
             /\ devs'[hd[h].device].st = "stopped"]_vars


\* C29: a reader that is no SD player and has a persisted device override always
\* streams to that override, whatever mode and target_device the scan request
\* carries.
C29_OverrideAlwaysWins ==
    (scan_device.reader # "none" /\ scan_device.configured \notin {"none", "espuino"})
        => scan_device.device = scan_device.configured

\* C29 (amended): a scan of such a reader is resolved to its persisted device
\* whatever the mode of the request, unless the request is in mode "stream" and
\* names a target_device: it is then resolved to that target.
C29_OverrideUnlessStreamTarget ==
    (scan_device.reader # "none" /\ scan_device.configured \notin {"none", "espuino"})
        => scan_device.device
               = IF scan_device.mode = "stream" /\ scan_device.target_device # "none"
                 THEN scan_device.target_device
                 ELSE scan_device.configured

\* a reader whose persisted device is a Sonos speaker asks for local playback and
\* is resolved to the speaker
C29_Witness ==
    /\ scan_device.mode = "local"
    /\ scan_device.configured = "sonos"
    /\ reader_devices[scan_device.reader] = "sonos"
    /\ scan_device.device = "sonos"


\* C30: whenever the mirror engine clears an intent from the persistent queue
\* because the album is verified complete on the card, the tag-to-folder
\* mapping of the device has been bound before the intent is cleared.  A step
\* of an upload run (not a user cancel) that removes the intent of a device
\* whose card verifies complete leaves the mapping set.
C30_BoundBeforeIntentCleared ==
    [][\A ip \in EspIps :
         (/\ pending_uploads[ip]
          /\ ~pending_uploads'[ip]
          /\ ~DeletePendingUpload(ip)
          /\ verify_espuino_upload(sd'[ip]).complete)
         => rfid'[ip]]_vars


(***************************************************************************)
(* Properties of the encoding status                                       *)
(***************************************************************************)
\* C31: an encoding is reported as stalled only if the wall-clock budget has
\* elapsed with no progress update: a poll that answers with the time-out error
\* finds a record whose last update is more than StallSeconds old.
C31_StalledOnlyWithoutProgress ==
    [][(GetEncodingStatus /\ polled' = "timed out")
          => now - status_info.updated > StallSeconds]_vars


(***************************************************************************)
(* Properties of a failing transcoder and of the track files               *)
(***************************************************************************)
\* a step in which the transcoder of job j returns with a failure
TranscoderFails(j) ==
    EfEncodeDone(j, FALSE) \/ CrEncodeDone(j, FALSE) \/ AllEncodeDone(j, FALSE)

\* C32: if the transcoder fails for a track (non-zero exit or timeout), the
\* album fails: the status becomes an error, the attempt ends without writing
\* metadata.json, and the track files that are in the fingerprint directory
\* stay there for a later attempt.
C32_FailedTrackFailsAlbum ==
    [][\A j \in Jobs :
          TranscoderFails(j)
          => /\ encStatus'[job[j].fp] = "error"
             /\ meta' = meta
             /\ files' = files /\ dirs' = dirs
             /\ job'[j].pc \notin {"ef_encoding", "all_encoding"}
             /\ job'[j].rpc # "cr_encoding"]_vars

\* the transcoder of the background task has just failed on a later track: the
\* first track is in the directory, the status is an error, no metadata.json
C32_Witness ==
    \E fp \in FP :
        /\ encStatus[fp] = "error"
        /\ files[fp] # {}
        /\ ~meta[fp].exists
        /\ \A j \in Jobs : job[j].kind = "idle" \/ job[j].fp # fp


\* C33: a track file NN.mp3 never appears in the cache partially written: it
\* becomes visible only after the transcoder has succeeded, and on any failure
\* the temp file is deleted and no NN.mp3 is created or altered.
C33_NoPartialTrackFile ==
    /\ \A t \in TrackPaths : track_io.out[t] # "partial"
    /\ track_io.ret = "false" => track_io.temp = "absent"


(***************************************************************************)
(* Properties of the upload's wait for the encoder                         *)
(***************************************************************************)
\* upload_to_sd, created once the playback of the scan has started, polls
\* get_encoding_status and goes on to the transfer of the files when the status
\* is "cached" or "ready".  The encoder tasks of a scan for an ESPuino are those
\* of any network scan (encode_first_track, then the remaining-tracks task).
UploadProceeds(j) ==
    /\ job[j].kind = "net"
    /\ job[j].pc = "done"
    /\ job[j].rpc \notin {"off", "cr_start", "done"}
    /\ get_encoding_status(job[j].fp) \in {"cached", "ready"}

\* C34: for an SD player playing a physical tag, the upload of the album starts
\* to transfer files only after the encoding of the whole album has finished
\* (metadata.json present).
C34_UploadAfterEncoding ==
    \A j \in Jobs : UploadProceeds(j) => meta[job[j].fp].exists


(***************************************************************************)
(* Properties of progressive queueing                                      *)
(***************************************************************************)
\* the tracks after the first that a remaining-tracks task has gone past: those
\* in its track_infos, but for the one whose queue call has not returned
CrPassed(b) ==
    ({b.infos[k] : k \in 1 .. Len(b.infos)} \ {0})
        \ (IF b.rpc = "cr_queue" THEN {b.i} ELSE {})

\* C35: in progressive playback on a queue-capable device every track after the
\* first is put on the device queue once its file is available, tracks found in
\* the cache included: a step by which the remaining-tracks task goes past
\* tracks leaves each of them on the queue of the device, unless the device
\* refused the queue call of that step.
C35_EveryTrackQueued ==
    [][\A j \in Jobs :
          (/\ job[j].kind = "net"
           /\ job[j].dev \in QueueDevices
           /\ job[j].rpc \in {"cr_start", "cr_lockwait", "cr_queue"}
           /\ job'[j].rpc \in {"cr_encoding", "cr_queue", "cr_sleep"}
           /\ ~CrQueueDone(j, FALSE))
          => LET fp == job[j].fp
                 after == IF job'[j].rpc = "cr_sleep"
                          THEN {meta'[fp].tracks[k] : k \in 1 .. Len(meta'[fp].tracks)} \ {0}
                          ELSE CrPassed(job'[j])
             IN  \A i \in after \ CrPassed(job[j]) :
                     \E k \in 1 .. Len(queue'[job[j].dev]) :
                         queue'[job[j].dev][k] = <<fp, i>>]_vars


(***************************************************************************)
(* Properties of the file upload                                           *)
(***************************************************************************)
\* C36: a failing file upload is retried as a whole file up to 3 times, with
\* backoff delays of 5, 10 and 20 seconds, after which the upload returns
\* failure: an upload that returns because its attempts are used up has slept
\* the three delays.
C36_ThreeRetriesWithBackoff ==
    (xfer.pc = "returned" /\ xfer.ret = "failed") => xfer.delays = <<5, 10, 20>>

\* the POST of a file is in flight
InFlight == xfer.pc = "posting"

\* C37: a file transfer in flight is aborted when the cancel flag is set or when
\* no upload progress has been made for 10 s, at the next run of the watchdog
\* (every second from the start of the transfer) at the latest, and the watchdog
\* does not abort it for a stall while progress was made within the last 10 s.
\* The time without progress is the time since on_progress last ran, or since
\* the call began when it never ran.
C37_AbortOnCancelOrStall ==
    /\ (InFlight /\ xfer.cancel)
          => \/ xfer.now - xfer.cancel_at <= WatchdogPeriod
             \/ xfer.now - xfer.post_start <= WatchdogPeriod
    /\ InFlight
          => \/ xfer.now - xfer.last_progress_time <= stale_threshold + WatchdogPeriod
             \/ xfer.now - xfer.post_start <= WatchdogPeriod
    /\ (xfer.pc = "returned" /\ xfer.ret = Stalled)
          => xfer.aborted_at - xfer.last_progress_time > stale_threshold

\* a transfer that made progress and then none for more than 10 s was aborted
C37_Witness ==
    /\ xfer.pc = "returned"
    /\ xfer.ret = Stalled
    /\ xfer.sent
    /\ xfer.last_progress_time > xfer.post_start


\* C38: once a cancel has been requested for a device, an upload run of the
\* device that was in flight at that moment begins the transfer of no further
\* file, however long it goes on: no step of such a run takes it from the head
\* of the retry loop of upload_to_espuino to the POST of a file.
C38_NoTransferAfterCancel ==
    [][\A u \in Runs :
          run[u].before_cancel => ~(run[u].pc = "xfer_dir" /\ run'[u].pc = "xfer_post")]_vars


(***************************************************************************)
(* Properties of the encoding status record                                *)
(***************************************************************************)
\* C39: every encoding status record that enters the state "encoding" leaves it
\* through the encoding tasks themselves, also when the remaining-tracks task
\* fails or raises.  While a record is at "encoding" some task of its
\* fingerprint is therefore still there to move it: a record at "encoding"
\* with no task left stays there for good.
C39_EncodingHasItsTask ==
    \A fp \in FP :
        encStatus[fp] = "encoding" => \E j \in Jobs : job[j].kind # "idle" /\ job[j].fp = fp


(***************************************************************************)
(* Properties of the wall-clock resume position                            *)
(***************************************************************************)
\* C40: for a device that reports no position, the resume position recorded at
\* a tag removal is the start offset plus the time spent playing, the time the
\* reader stayed paused between a removal and the return of the tag not
\* counted: at the removal of a tag from a reader playing on itself the recorded
\* position is the position the player has reached.
C40_ResumePositionIsPlayedTime ==
    [][(/\ Remove
        /\ rs.current_tag.uid # "none"
        /\ rs.current_device = "espuino"
        /\ devs["espuino"].st = "playing")
          => rs'.resume.position = devs["espuino"].pos]_vars

=============================================================================
